---- MODULE Spec2Model ----
(***************************************************************************)
(* GenXBot CLI (cli/bin/genxbot.js): the local service supervisor.         *)
(*                                                                         *)
(* The CLI is a series of independent invocations; everything it knows is  *)
(* on disk (daemon.meta.json, health.snapshot.json, .env) and is checked   *)
(* against the operating system (pid liveness) at every invocation.  The   *)
(* model keeps the files, the operating system's processes and the local   *)
(* variables of the invocation in flight, one action per step between two  *)
(* points where the daemon process may exit on its own.                    *)
(***************************************************************************)
EXTENDS Integers, Sequences, FiniteSets, TLC

VARIABLES
    host,       \* facts of the machine: interpreters on PATH, platform, and
                \* the pids now held by processes that are no daemon of ours
    clock,      \* wall clock (new Date()), one tick per invocation
    alive,      \* pids of the processes that exist at the OS level: daemons,
                \* and what else was given the pid of a daemon that exited
    stubborn,   \* pids of daemons that ignore SIGTERM and never exit alone
    nextPid,    \* the pid the OS gives the next spawned child
    appHome,    \* ~/.genxbot exists
    logDir,     \* ~/.genxbot/logs exists
    logFiles,   \* daemon.out.log / daemon.err.log exist
    envFile,    \* ~/.genxbot/.env
    metaFile,   \* ~/.genxbot/daemon.meta.json       (ProcessRecord)
    snapFile,   \* ~/.genxbot/health.snapshot.json   (HealthSnapshot)
    svc,        \* LaunchAgent plist / systemd unit: file present, unit loaded
    cli,        \* the invocation in flight: its command, position and locals
    last,       \* summary of the most recent completed invocation
    prev        \* summary of the completed invocation before it

vars == <<host, clock, alive, stubborn, nextPid, appHome, logDir, logFiles,
          envFile, metaFile, snapFile, svc, cli, last, prev>>

osVars == <<alive, stubborn, nextPid>>
fsVars == <<appHome, logDir, logFiles, envFile, metaFile, snapFile, svc>>

----------------------------------------------------------------------------
(* Bounds of the model and constants of the program.                        *)

MaxClock == 3          \* invocations per behaviour
MaxEnvLines == 1       \* lines of a hand-edited .env file
MaxDeficiencies == 1   \* host facts that are "bad" in one doctor run

PollLimit == 15        \* for (let i = 0; i < 15; i += 1)
Null == 0              \* JS null / undefined for pids and timestamps

----------------------------------------------------------------------------
(* Strings.  A string is a sequence of tokens: a token is a word that the   *)
(* code never looks inside, or one of the characters it searches for.       *)

SP == " "
EQ == "="
HASH == "#"

KeyOpenAI == "OPENAI_API_KEY"
KeyAdmin == "ADMIN_API_TOKEN"
KeyMode == "AGENT_RUNTIME_MODE"
KeyWebhook == "CHANNEL_WEBHOOK_SECURITY_ENABLED"

\* String.prototype.toLowerCase on one token.
LowerTok(t) ==
    CASE t = "Multi" -> "multi"
      [] t = "SINGLE" -> "single"
      [] t = "TRUE" -> "true"
      [] t = "Y" -> "y"
      [] OTHER -> t

ToLowerCase(s) == [i \in 1..Len(s) |-> LowerTok(s[i])]

RECURSIVE TrimStart(_)
TrimStart(s) ==
    IF s # <<>> /\ Head(s) = SP THEN TrimStart(Tail(s)) ELSE s

RECURSIVE TrimEnd(_)
TrimEnd(s) ==
    IF s # <<>> /\ s[Len(s)] = SP THEN TrimEnd(SubSeq(s, 1, Len(s) - 1)) ELSE s

\* String.prototype.trim
Trim(s) == TrimEnd(TrimStart(s))

\* String.prototype.indexOf("="), 0-based, -1 when absent.
RECURSIVE IndexOfFrom(_, _, _)
IndexOfFrom(s, t, i) ==
    IF i > Len(s) THEN -1
    ELSE IF s[i] = t THEN i - 1
    ELSE IndexOfFrom(s, t, i + 1)

IndexOf(s, t) == IndexOfFrom(s, t, 1)

\* String.prototype.slice(from, to) with 0-based, end-exclusive indices.
Slice(s, from, to) == SubSeq(s, from + 1, to)

----------------------------------------------------------------------------
(* Files.  A missing file is [exists |-> FALSE]; fs.rmSync of the app home  *)
(* removes every file under it.                                             *)

NoFile == [exists |-> FALSE]

\* A file that fs.writeFileSync had truncated and not yet filled when the
\* process died: it is there, and it is not JSON.
Torn == [exists |-> TRUE, torn |-> TRUE]

IsTorn(file) == file.exists /\ "torn" \in DOMAIN file

\* readJsonFile(path, fallback) returns the fallback when the file is
\* missing and when JSON.parse throws; Parses(file) is the other case.
Parses(file) == file.exists /\ ~IsTorn(file)

\* writeJsonFile(path, value) interrupted inside fs.writeFileSync: the file
\* was opened with truncation, and holds a part of value, or all of it.
InterruptedWrite(value) == {Torn, value}

OutLogPath == "logs/daemon.out.log"
ErrLogPath == "logs/daemon.err.log"
BackendDir == "backend"

\* daemonArgs(): the uvicorn command line.
DaemonArgs == <<"-m", "uvicorn", "app.main:app", "--host", "127.0.0.1", "--port", "8000">>

\* detectBackendDir(): the first candidate directory; a fact of the checkout.
DetectBackendDir == BackendDir

\* isProcessAlive(pid): process.kill(pid, 0) succeeds.
IsProcessAlive(pid) == pid > 0 /\ pid \in alive

\* resolveDaemonPythonCommand(): python3, else python, else null.
ResolveDaemonPythonCommand_Assumed == "python3"

\* resolveDaemonPythonCommand(): python3, else python, else null.
ResolveDaemonPythonCommand ==
    IF host.python3 THEN "python3" ELSE IF host.python THEN "python" ELSE "null"

\* readDaemonMeta(): the file's record, or the defaults when there is none.
DefaultMeta_Pid1 ==
    [exists |-> TRUE, manager |-> "cli", pid |-> 1, startedAt |-> Null,
     stoppedAt |-> Null, backendDir |-> "null", pythonCommand |-> "null",
     args |-> <<>>, outLog |-> OutLogPath, errLog |-> ErrLogPath,
     uninstallAt |-> Null, updatedAt |-> Null]

\* The fallback readDaemonMeta hands to readJsonFile.
DefaultMeta ==
    [exists |-> TRUE, manager |-> "cli", pid |-> Null, startedAt |-> Null,
     stoppedAt |-> Null, backendDir |-> "null", pythonCommand |-> "null",
     args |-> <<>>, outLog |-> OutLogPath, errLog |-> ErrLogPath,
     uninstallAt |-> Null, updatedAt |-> Null]

ReadDaemonMeta == IF Parses(metaFile) THEN metaFile ELSE DefaultMeta

\* writeDaemonMeta(meta): the record that reaches the file at time now.
\* ([] is truthy in JS, so an empty args list is kept as it is.)
DaemonMetaRecord(meta, now) ==
    [exists |-> TRUE,
     manager |-> IF meta.manager = "" THEN "cli" ELSE meta.manager,
     pid |-> meta.pid,
     startedAt |-> meta.startedAt,
     stoppedAt |-> meta.stoppedAt,
     backendDir |-> IF meta.backendDir = "null" THEN DetectBackendDir ELSE meta.backendDir,
     pythonCommand |-> meta.pythonCommand,
     args |-> meta.args,
     outLog |-> meta.outLog,
     errLog |-> meta.errLog,
     uninstallAt |-> meta.uninstallAt,
     updatedAt |-> now]

\* What the GET of /api/v1/runs on port 8000 can come to.  The port is held
\* by the daemon, by an unrelated process, or by nobody; whoever holds it
\* answers, or does not.  The endpoint is outside the supervisor: any
\* outcome is possible at any time.
Response(server, statusCode) ==
    [kind |-> "response", server |-> server, statusCode |-> statusCode]

NoResponse ==
    {[kind |-> "error", server |-> "none", statusCode |-> Null],
     [kind |-> "timeout", server |-> "daemon", statusCode |-> Null],
     [kind |-> "timeout", server |-> "other", statusCode |-> Null]}

\* The outcomes the lifecycle commands are run against: the daemon answers,
\* well or badly, or nothing does.
HttpOutcomes ==
    {Response("daemon", 200), Response("daemon", 500)}
    \cup {o \in NoResponse : o.server # "other"}

\* Statuses of each class that reaches http.get's response callback (1xx
\* does not), with the edges of the range probeHttp tests.
ProbeStatuses == {200, 204, 302, 399, 400, 404, 499, 500, 503, 599}

\* Every outcome, from either holder of the port.
AllHttpOutcomes ==
    {Response(server, c) : server \in {"daemon", "other"}, c \in ProbeStatuses}
    \cup NoResponse

NoProbe == [in |-> [kind |-> "none", server |-> "none"], out |-> [ok |-> FALSE]]

ProbeHttp_Below400(o) ==
    CASE o.kind = "response" ->
            [ok |-> o.statusCode >= 200 /\ o.statusCode < 400,
             statusCode |-> o.statusCode, error |-> "null"]
      [] o.kind = "error" ->
            [ok |-> FALSE, statusCode |-> Null, error |-> "ECONNREFUSED"]
      [] OTHER ->
            [ok |-> FALSE, statusCode |-> Null, error |-> "timeout"]

\* probeHttp(url)

ProbeHttp(o) ==
    CASE o.kind = "response" ->
            [ok |-> o.statusCode >= 200 /\ o.statusCode < 500,
             statusCode |-> o.statusCode, error |-> "null"]
      [] o.kind = "error" ->
            [ok |-> FALSE, statusCode |-> Null, error |-> "ECONNREFUSED"]
      [] OTHER ->
            [ok |-> FALSE, statusCode |-> Null, error |-> "timeout"]

HealthSnapshot_Merged(extra, o, now) ==
    LET meta == ReadDaemonMeta
        probe == ProbeHttp(o)
    IN extra @@
       [exists |-> TRUE,
        timestamp |-> now,
        daemon |-> [manager |-> IF meta.manager = "" THEN "cli" ELSE meta.manager,
                    pid |-> meta.pid,
                    pidAlive |-> IsProcessAlive(meta.pid),
                    startedAt |-> meta.startedAt,
                    stoppedAt |-> meta.stoppedAt,
                    backendDir |-> IF meta.backendDir = "null" THEN DetectBackendDir
                                   ELSE meta.backendDir],
        backendApi |-> [reachable |-> probe.ok,
                        statusCode |-> probe.statusCode,
                        error |-> probe.error]]
       @@ snapFile

\* writeHealthSnapshot(extra): the snapshot built from the record on disk, a
\* pid check and a probe; extra's keys (event, forced) are spread last.
HealthSnapshot(extra, o, now) ==
    LET meta == ReadDaemonMeta
        probe == ProbeHttp(o)
    IN extra @@
       [exists |-> TRUE,
        timestamp |-> now,
        daemon |-> [manager |-> IF meta.manager = "" THEN "cli" ELSE meta.manager,
                    pid |-> meta.pid,
                    pidAlive |-> IsProcessAlive(meta.pid),
                    startedAt |-> meta.startedAt,
                    stoppedAt |-> meta.stoppedAt,
                    backendDir |-> IF meta.backendDir = "null" THEN DetectBackendDir
                                   ELSE meta.backendDir],
        backendApi |-> [reachable |-> probe.ok,
                        statusCode |-> probe.statusCode,
                        error |-> probe.error]]

----------------------------------------------------------------------------
(* One invocation of the CLI.  cli[s] holds its position and its locals;    *)
(* invocations follow one another in slot "a".                              *)

Slots == {"a"}

\* What the disk and the OS looked like when the invocation began.
CurrentPre ==
    [meta |-> metaFile, snap |-> snapFile, env |-> envFile, appHome |-> appHome,
     logDir |-> logDir, logFiles |-> logFiles, svc |-> svc, alive |-> alive]

NoPre ==
    [meta |-> NoFile, snap |-> NoFile, env |-> NoFile, appHome |-> FALSE,
     logDir |-> FALSE, logFiles |-> FALSE, svc |-> [file |-> FALSE, loaded |-> FALSE],
     alive |-> {}]

Idle ==
    [pc |-> "idle", cmd |-> "none", yes |-> FALSE, now |-> 0,
     meta |-> NoFile, running |-> FALSE, i |-> 0, stopped |-> FALSE,
     usedSigkill |-> FALSE,
     extra |-> [event |-> "none"], ret |-> "none", exit |-> 0,
     sigs |-> <<>>, launched |-> Null, status |-> NoFile, checks |-> <<>>,
     probe |-> NoProbe,
     summary |-> [PASS |-> 0, WARN |-> 0, FAIL |-> 0], pre |-> NoPre]

\* The locals of an invocation of cmd that begins now.
Invocation(cmd, yes) ==
    [Idle EXCEPT !.cmd = cmd, !.yes = yes, !.now = clock + 1, !.pre = CurrentPre]

CanBegin(s) == cli[s].pc = "idle" /\ clock < MaxClock

\* What is kept of the invocation that completed last; end is the number
\* of invocations that had begun when it completed ...
Summary(c) ==
    [cmd |-> c.cmd, yes |-> c.yes, now |-> c.now, exit |-> c.exit, ret |-> c.ret,
     extra |-> c.extra, sigs |-> c.sigs, launched |-> c.launched,
     status |-> c.status, checks |-> c.checks, summary |-> c.summary,
     probe |-> c.probe, pre |-> c.pre, end |-> clock]

\* ... and of the one before it.
Earlier(sum) ==
    [cmd |-> sum.cmd, yes |-> sum.yes, exit |-> sum.exit, ret |-> sum.ret,
     event |-> sum.extra.event, launched |-> sum.launched, end |-> sum.end]

NoRun == Summary(Idle)

\* process.exit(code): the invocation c is over.
Finish(s, c) ==
    /\ last' = Summary(c)
    /\ prev' = Earlier(last)
    /\ cli' = [cli EXCEPT ![s] = Idle]

----------------------------------------------------------------------------
(* The daemon process, seen from outside: one that does not ignore SIGTERM  *)
(* may exit at any moment, on the signal or on its own.                     *)

ProcExit(p) ==
    /\ p \in alive \ stubborn
    /\ alive' = alive \ {p}
    /\ UNCHANGED <<host, clock, stubborn, nextPid, fsVars, cli, last, prev>>

Signal_ToNewest(sig, pid) ==
    [sig |-> sig, pid |-> nextPid - 1, delivered |-> nextPid - 1 \in alive]

\* process.kill(pid, signal): delivered iff the process exists.
Signal(sig, pid) == [sig |-> sig, pid |-> pid, delivered |-> pid \in alive]

----------------------------------------------------------------------------
(* Configuration store: parseEnv, renderEnv, validateEnv.                   *)
(* Parsed values are a function from keys to values, both strings.          *)

NoValues == [k \in {} |-> <<>>]

Put(values, k, v) == [x \in DOMAIN values \cup {k} |-> IF x = k THEN v ELSE values[x]]

\* values.K || d : d when K is missing or the empty string.
OrElse(values, k, d) == IF k \in DOMAIN values /\ values[k] # <<>> THEN values[k] ELSE d

\* values.K ?? d : d only when K is missing.
Coalesce(values, k, d) == IF k \in DOMAIN values THEN values[k] ELSE d

\* One line of parseEnv: blank lines, comments and lines whose "=" is
\* missing or first are skipped.
ParseLine(values, rawLine) ==
    LET line == Trim(rawLine)
        idx == IndexOf(line, EQ)
    IN IF line = <<>> \/ Head(line) = HASH THEN values
       ELSE IF idx <= 0 THEN values
       ELSE Put(values, Trim(Slice(line, 0, idx)), Trim(Slice(line, idx + 1, Len(line))))

RECURSIVE ParseLines(_, _)
ParseLines(values, lines) ==
    IF lines = <<>> THEN values
    ELSE ParseLines(ParseLine(values, Head(lines)), Tail(lines))

\* parseEnv(content)
ParseEnv(lines) == ParseLines(NoValues, lines)

\* loadEnvValues(): {} when there is no env file.
LoadEnvValues == IF envFile.exists THEN ParseEnv(envFile.lines) ELSE NoValues

\* renderEnv(values): the header, the four recognized keys, a final newline.
RenderEnv(values) ==
    << <<HASH, SP, "GenXBot global environment">>,
       <<KeyOpenAI, EQ>> \o Coalesce(values, <<KeyOpenAI>>, <<>>),
       <<KeyAdmin, EQ>> \o Coalesce(values, <<KeyAdmin>>, <<>>),
       <<KeyMode, EQ>> \o Coalesce(values, <<KeyMode>>, <<"single">>),
       <<KeyWebhook, EQ>> \o Coalesce(values, <<KeyWebhook>>, <<"false">>),
       <<>> >>

RuntimeModes == {<<"single">>, <<"multi">>, <<"hybrid">>}

EnvErrors_Unchecked(values) == <<>>

\* validateEnv(values).errors
EnvErrors(values) ==
    LET mode == ToLowerCase(Trim(OrElse(values, <<KeyMode>>, <<"single">>)))
    IN IF mode # <<>> /\ mode \notin RuntimeModes
       THEN <<"AGENT_RUNTIME_MODE must be one of: single, multi, hybrid">>
       ELSE <<>>

\* validateEnv(values).warnings
EnvWarnings(values) ==
    (IF Trim(OrElse(values, <<KeyOpenAI>>, <<>>)) = <<>>
     THEN <<"OPENAI_API_KEY is missing">> ELSE <<>>)
    \o (IF Trim(OrElse(values, <<KeyAdmin>>, <<>>)) = <<>>
        THEN <<"ADMIN_API_TOKEN is empty">> ELSE <<>>)

ValidateEnv(values) == [warnings |-> EnvWarnings(values), errors |-> EnvErrors(values)]

\* writeEnvTemplate(): renderEnv({}) is written only when there is no env file.
WriteEnvTemplate ==
    IF envFile.exists THEN envFile ELSE [exists |-> TRUE, lines |-> RenderEnv(NoValues)]

----------------------------------------------------------------------------
(* writeHealthSnapshot, as the last await of a command.                     *)

\* The step after the snapshot of command cmd.
AfterSnap(cmd) == IF cmd = "uninstall" THEN "cleanup" ELSE "exit"

\* daemonStatus's composite view, built from the record read at the start.
StatusReport_RecordedPid(meta, running, snapshot) ==
    [exists |-> TRUE,
     manager |-> IF meta.manager = "" THEN "cli" ELSE meta.manager,
     running |-> running,
     pid |-> meta.pid,
     startedAt |-> meta.startedAt,
     stoppedAt |-> meta.stoppedAt,
     backendApi |-> snapshot.backendApi]

\* The status object daemonStatus prints.
StatusReport(meta, running, snapshot) ==
    [exists |-> TRUE,
     manager |-> IF meta.manager = "" THEN "cli" ELSE meta.manager,
     running |-> running,
     pid |-> IF running THEN meta.pid ELSE Null,
     startedAt |-> meta.startedAt,
     stoppedAt |-> meta.stoppedAt,
     backendApi |-> snapshot.backendApi]

StartExit_FailsUnreachable(reachable) == IF reachable THEN 0 ELSE 1

\* startDaemon prints the probe's answer and returns; main: process.exit(0).
StartExit(reachable) == 0

\* writeHealthSnapshot when the probe comes to o, and what follows it.
SnapBody(s, o) ==
    /\   LET c0 == cli[s]
             c == [c0 EXCEPT !.probe = [in |-> o, out |-> ProbeHttp(o)]]
             snapshot == HealthSnapshot(c.extra, o, c.now)
             c2 == CASE c.cmd = "status" ->
                          [c EXCEPT !.status = StatusReport(c.meta, c.running, snapshot)]
                     [] c.cmd = "start" ->
                          [c EXCEPT !.exit = StartExit(snapshot.backendApi.reachable)]
                     [] OTHER -> c
         IN /\ snapFile' = snapshot
            /\ appHome' = TRUE
            /\ IF AfterSnap(c.cmd) = "exit"
               THEN Finish(s, c2)
               ELSE /\ cli' = [cli EXCEPT ![s] = [c2 EXCEPT !.pc = AfterSnap(c.cmd)]]
                    /\ UNCHANGED <<last, prev>>
    /\ UNCHANGED <<host, clock, osVars, logDir, logFiles, envFile, metaFile, svc>>

SnapWith(s, o) == cli[s].pc = "snap" /\ SnapBody(s, o)

Snap_Skipped(s) ==
    /\ cli[s].pc = "snap"
    /\ cli[s].cmd # "uninstall"
    /\ Finish(s, cli[s])
    /\ UNCHANGED <<host, clock, osVars, fsVars>>

\* await writeHealthSnapshot(extra), against whatever the endpoint answers.
Snap(s) == \E o \in HttpOutcomes : SnapWith(s, o)

\* The same step when the endpoint may answer with any status.
SnapProbe(s) == \E o \in AllHttpOutcomes : SnapWith(s, o)

----------------------------------------------------------------------------
(* start                                                                    *)

AlreadyRunning_Never(existing) == FALSE

AlreadyRunning_TrustsSnapshot(existing) ==
    \/ IsProcessAlive(existing.pid)
    \/ snapFile.exists /\ snapFile.daemon.pidAlive

\* startDaemon's test of the record it read: is that process still there?
AlreadyRunning(existing) == IsProcessAlive(existing.pid)

\* The record startDaemon writes for the child it spawned.
StartedMeta_KeepsStoppedAt(existing, pid, py, now) ==
    [existing EXCEPT !.manager = "cli", !.pid = pid, !.startedAt = now,
                     !.backendDir = DetectBackendDir,
                     !.pythonCommand = py, !.args = DaemonArgs,
                     !.outLog = OutLogPath, !.errLog = ErrLogPath]

StartedMeta_NoStartedAt(existing, pid, py, now) ==
    [existing EXCEPT !.manager = "cli", !.pid = pid,
                     !.stoppedAt = Null, !.backendDir = DetectBackendDir,
                     !.pythonCommand = py, !.args = DaemonArgs,
                     !.outLog = OutLogPath, !.errLog = ErrLogPath]

\* nextMeta of startDaemon: the record read, overwritten by the launch.
StartedMeta(existing, pid, py, now) ==
    [existing EXCEPT !.manager = "cli", !.pid = pid, !.startedAt = now,
                     !.stoppedAt = Null, !.backendDir = DetectBackendDir,
                     !.pythonCommand = py, !.args = DaemonArgs,
                     !.outLog = OutLogPath, !.errLog = ErrLogPath]

\* ensureDir x2, writeEnvTemplate, readDaemonMeta, the liveness test and the
\* search for an interpreter.
StartBegin(s) ==
    /\ CanBegin(s)
    /\ clock' = clock + 1
    /\ appHome' = TRUE
    /\ logDir' = TRUE
    /\ envFile' = WriteEnvTemplate
    /\ LET c == [Invocation("start", FALSE) EXCEPT !.meta = ReadDaemonMeta]
       IN IF AlreadyRunning(c.meta)
          THEN /\ cli' = [cli EXCEPT ![s] =
                    [c EXCEPT !.pc = "snap",
                              !.extra = [event |-> "start_skipped_already_running"]]]
               /\ UNCHANGED <<last, prev>>
          ELSE IF ResolveDaemonPythonCommand = "null"
          THEN Finish(s, [c EXCEPT !.exit = 1])
          ELSE /\ cli' = [cli EXCEPT ![s] = [c EXCEPT !.pc = "spawn"]]
               /\ UNCHANGED <<last, prev>>
    /\ UNCHANGED <<host, osVars, logFiles, metaFile, snapFile, svc>>

\* fs.openSync of both logs, spawn(detached), writeDaemonMeta(nextMeta).
StartSpawn(s) ==
    /\ cli[s].pc = "spawn"
    /\ \E ignoresTerm \in BOOLEAN :
         LET c == cli[s]
             pid == nextPid
         IN /\ alive' = alive \cup {pid}
            /\ stubborn' = IF ignoresTerm THEN stubborn \cup {pid} ELSE stubborn
            /\ nextPid' = nextPid + 1
            /\ logFiles' = TRUE
            /\ metaFile' = DaemonMetaRecord(
                               StartedMeta(c.meta, pid, ResolveDaemonPythonCommand, c.now),
                               c.now)
            /\ cli' = [cli EXCEPT ![s] = [c EXCEPT !.pc = "start_sleep", !.launched = pid]]
    /\ UNCHANGED <<host, clock, appHome, logDir, envFile, snapFile, svc, last, prev>>

\* await sleep(1200), then the snapshot tagged "start".
StartSleep(s) ==
    /\ cli[s].pc = "start_sleep"
    /\ cli' = [cli EXCEPT ![s] = [@ EXCEPT !.pc = "snap", !.extra = [event |-> "start"]]]
    /\ UNCHANGED <<host, clock, osVars, fsVars, last, prev>>

----------------------------------------------------------------------------
(* stop                                                                     *)

StoppedMeta_KeepsPid(meta, now) == [meta EXCEPT !.stoppedAt = now]

StoppedMeta_Replaces(meta, now) == [DefaultMeta EXCEPT !.stoppedAt = now]

\* The record stopDaemon writes once the process is gone.
StoppedMeta(meta, now) == [meta EXCEPT !.pid = Null, !.stoppedAt = now]

\* stopDaemon up to its first await or signal: no pid recorded, a stale pid
\* (record reconciled), or a live pid (SIGTERM comes next).
StopEntry(c0) ==
    LET c == [c0 EXCEPT !.meta = ReadDaemonMeta]
    IN IF c.meta.pid = Null
       THEN [c EXCEPT !.pc = "snap", !.extra = [event |-> "stop_no_metadata"],
                      !.ret = "true"]
       ELSE IF ~IsProcessAlive(c.meta.pid)
       THEN [c EXCEPT !.pc = "snap", !.extra = [event |-> "stop_clean_stale_pid"],
                      !.ret = "true"]
       ELSE [c EXCEPT !.pc = "sigterm"]

\* The write of the stale-pid branch, if that branch is taken.
StopEntryMeta(c) ==
    IF c.extra.event = "stop_clean_stale_pid"
    THEN DaemonMetaRecord(StoppedMeta(c.meta, c.now), c.now)
    ELSE metaFile

\* main: process.exit(stopped ? 0 : 1); uninstall ignores stop's result.
StopExitCode(ret) == IF ret = "true" THEN 0 ELSE 1

StopBegin(s) ==
    /\ CanBegin(s)
    /\ clock' = clock + 1
    /\ LET c == StopEntry(Invocation("stop", FALSE))
       IN /\ cli' = [cli EXCEPT ![s] = [c EXCEPT !.exit = StopExitCode(c.ret)]]
          /\ metaFile' = StopEntryMeta(c)
          /\ appHome' = (appHome \/ metaFile' # metaFile)
    /\ UNCHANGED <<host, osVars, logDir, logFiles, envFile, snapFile, svc, last, prev>>

StopTerm_Uncaught(s) ==
    /\ cli[s].pc = "sigterm"
    /\ LET sig == Signal("SIGTERM", cli[s].meta.pid)
           c == [cli[s] EXCEPT !.sigs = Append(@, sig)]
       IN IF sig.delivered
          THEN /\ cli' = [cli EXCEPT ![s] =
                          [c EXCEPT !.pc = "poll", !.i = 0, !.stopped = FALSE,
                                    !.usedSigkill = FALSE]]
               /\ UNCHANGED <<last, prev>>
          ELSE Finish(s, [c EXCEPT !.ret = "false", !.exit = 1])
    /\ UNCHANGED <<host, clock, osVars, fsVars>>

\* process.kill(meta.pid, "SIGTERM") in its try/catch; the loop starts.
StopTerm(s) ==
    /\ cli[s].pc = "sigterm"
    /\ cli' = [cli EXCEPT ![s] =
                 [@ EXCEPT !.pc = "poll", !.i = 0, !.stopped = FALSE,
                           !.usedSigkill = FALSE,
                           !.sigs = Append(@, Signal("SIGTERM", cli[s].meta.pid))]]
    /\ UNCHANGED <<host, clock, osVars, fsVars, last, prev>>

LoopContinues_Once(i) == i < 1

\* The loop's condition: for (let i = 0; i < 15; i += 1)
LoopContinues(i) == i < PollLimit

\* One test of the loop: if (!isProcessAlive(meta.pid)) { stopped = true; break; }
\* (i is the loop's own variable: it is gone once the loop is left.)
StopPoll(s) ==
    /\ cli[s].pc = "poll"
    /\ cli' = [cli EXCEPT ![s] =
                 IF ~IsProcessAlive(@.meta.pid)
                 THEN [@ EXCEPT !.stopped = TRUE, !.pc = "escalate", !.i = 0]
                 ELSE [@ EXCEPT !.pc = "poll_sleep"]]
    /\ UNCHANGED <<host, clock, osVars, fsVars, last, prev>>

\* await sleep(200); i += 1; the loop ends when its condition fails.
StopSleep(s) ==
    /\ cli[s].pc = "poll_sleep"
    /\ cli' = [cli EXCEPT ![s] =
                 IF LoopContinues(@.i + 1)
                 THEN [@ EXCEPT !.i = @ + 1, !.pc = "poll"]
                 ELSE [@ EXCEPT !.i = 0, !.pc = "escalate"]]
    /\ UNCHANGED <<host, clock, osVars, fsVars, last, prev>>

\* if (!stopped && isProcessAlive(meta.pid)): is SIGKILL needed?
StopEscalate(s) ==
    /\ cli[s].pc = "escalate"
    /\ cli' = [cli EXCEPT ![s] =
                 IF ~@.stopped /\ IsProcessAlive(@.meta.pid)
                 THEN [@ EXCEPT !.pc = "sigkill"]
                 ELSE [@ EXCEPT !.pc = "stop_finish"]]
    /\ UNCHANGED <<host, clock, osVars, fsVars, last, prev>>

\* try { process.kill(pid, "SIGKILL"); stopped = usedSigkill = true }
\* catch { stopped = false }: the kill throws when the process is gone.
StopKill(s) ==
    /\ cli[s].pc = "sigkill"
    /\ LET c == cli[s]
           sig == Signal("SIGKILL", c.meta.pid)
       IN /\ cli' = [cli EXCEPT ![s] =
                       [c EXCEPT !.pc = "stop_finish",
                                 !.sigs = Append(@, sig),
                                 !.stopped = sig.delivered,
                                 !.usedSigkill = sig.delivered]]
          /\ alive' = alive \ {c.meta.pid}
    /\ UNCHANGED <<host, clock, stubborn, nextPid, fsVars, last, prev>>

\* stopDaemon's return value.
StopReturn(stopped) == IF stopped THEN "true" ELSE "false"

StopFinishMeta_Always(c) == DaemonMetaRecord(StoppedMeta(c.meta, c.now), c.now)

\* The record after stopDaemon's last branch: written only if (stopped).
StopFinishMeta(c) ==
    IF c.stopped
    THEN DaemonMetaRecord(StoppedMeta(c.meta, c.now), c.now)
    ELSE metaFile

\* if (stopped) { writeDaemonMeta(pid: null, stoppedAt); snapshot "stop" }
\* else snapshot "stop_failed".
StopFinish(s) ==
    /\ cli[s].pc = "stop_finish"
    /\ LET c == cli[s]
           ret == StopReturn(c.stopped)
       IN /\ metaFile' = StopFinishMeta(c)
          /\ appHome' = (appHome \/ c.stopped)
          /\ cli' = [cli EXCEPT ![s] =
                       [c EXCEPT !.pc = "snap",
                                 !.ret = ret,
                                 !.exit = IF c.cmd = "stop" THEN StopExitCode(ret) ELSE 0,
                                 !.extra = IF c.stopped
                                           THEN [event |-> "stop", forced |-> c.usedSigkill]
                                           ELSE [event |-> "stop_failed"]]]
    /\ UNCHANGED <<host, clock, osVars, logDir, logFiles, envFile, snapFile, svc, last, prev>>

----------------------------------------------------------------------------
(* status                                                                   *)

\* readDaemonMeta, isProcessAlive, then the snapshot tagged "status".
StatusBegin(s) ==
    /\ CanBegin(s)
    /\ clock' = clock + 1
    /\ LET c == [Invocation("status", FALSE) EXCEPT !.meta = ReadDaemonMeta]
       IN cli' = [cli EXCEPT ![s] =
                    [c EXCEPT !.pc = "snap",
                              !.running = IsProcessAlive(c.meta.pid),
                              !.extra = [event |-> "status"]]]
    /\ UNCHANGED <<host, osVars, fsVars, last, prev>>

----------------------------------------------------------------------------
(* uninstall                                                                *)

NoService == [file |-> FALSE, loaded |-> FALSE]

UninstallRefused_Never(yes) == FALSE

\* if (!yes) { ...; process.exit(1); }
UninstallRefused(yes) == ~yes

UninstallBegin_NoStop(s, yes) ==
    /\ CanBegin(s)
    /\ clock' = clock + 1
    /\ IF UninstallRefused(yes)
       THEN Finish(s, [Invocation("uninstall", yes) EXCEPT !.exit = 1])
       ELSE /\ cli' = [cli EXCEPT ![s] =
                       [Invocation("uninstall", yes) EXCEPT !.meta = ReadDaemonMeta,
                                                            !.pc = "cleanup"]]
            /\ UNCHANGED <<last, prev>>
    /\ UNCHANGED <<host, osVars, fsVars>>

\* uninstallCli up to the first await of its stopDaemon(): the refusal
\* without --yes, or the entry of the embedded stop.
UninstallBegin(s, yes) ==
    /\ CanBegin(s)
    /\ clock' = clock + 1
    /\ IF UninstallRefused(yes)
       THEN /\ Finish(s, [Invocation("uninstall", yes) EXCEPT !.exit = 1])
            /\ UNCHANGED <<metaFile, appHome>>
       ELSE LET c == StopEntry(Invocation("uninstall", yes))
            IN /\ cli' = [cli EXCEPT ![s] = c]
               /\ metaFile' = StopEntryMeta(c)
               /\ appHome' = (appHome \/ metaFile' # metaFile)
               /\ UNCHANGED <<last, prev>>
    /\ UNCHANGED <<host, osVars, logDir, logFiles, envFile, snapFile, svc>>

\* if (pathExists(plistPath)) / if (pathExists(svcPath)), per platform.
UnitInstalled == host.platform \in {"darwin", "linux"} /\ svc.file

\* writeDaemonMeta({...readDaemonMeta(), pid: null, uninstallAt}), then
\* fs.rmSync(APP_HOME, {recursive}): nothing of ~/.genxbot is left.
RemoveHome(s) ==
    /\ appHome' = FALSE
    /\ logDir' = FALSE
    /\ logFiles' = FALSE
    /\ envFile' = NoFile
    /\ metaFile' = NoFile
    /\ snapFile' = NoFile
    /\ Finish(s, [cli[s] EXCEPT !.exit = 0])

UninstallCleanup_HomeFirst(s) ==
    /\ cli[s].pc = "cleanup"
    /\ RemoveHome(s)
    /\ UNCHANGED <<host, clock, osVars, svc>>

\* After stopDaemon: launchctl unload / systemctl disable --now when the
\* unit file is there; otherwise straight to the removal of ~/.genxbot.
UninstallCleanup(s) ==
    /\ cli[s].pc = "cleanup"
    /\ IF UnitInstalled
       THEN /\ svc' = [svc EXCEPT !.loaded = FALSE]
            /\ cli' = [cli EXCEPT ![s] = [@ EXCEPT !.pc = "rm_unit"]]
            /\ UNCHANGED <<appHome, logDir, logFiles, envFile, metaFile, snapFile,
                           last, prev>>
       ELSE /\ RemoveHome(s)
            /\ UNCHANGED svc
    /\ UNCHANGED <<host, clock, osVars>>

\* fs.rmSync(plistPath) / fs.rmSync(svcPath) and daemon-reload.
UninstallRemoveUnit(s) ==
    /\ cli[s].pc = "rm_unit"
    /\ svc' = [svc EXCEPT !.file = FALSE]
    /\ cli' = [cli EXCEPT ![s] = [@ EXCEPT !.pc = "rm_home"]]
    /\ UNCHANGED <<host, clock, osVars, appHome, logDir, logFiles, envFile, metaFile,
                   snapFile, last, prev>>

UninstallRemoveHome(s) ==
    /\ cli[s].pc = "rm_home"
    /\ RemoveHome(s)
    /\ UNCHANGED <<host, clock, osVars, svc>>

----------------------------------------------------------------------------
(* onboard [--install-daemon]                                               *)

\* installMacDaemon / installLinuxDaemon / the warning on other platforms:
\* the unit file, whether it got loaded, and the record when it was written.
\* launchctl load may fail; systemctl's result is not looked at.
InstalledService(loadOk) ==
    CASE host.platform = "darwin" -> [file |-> TRUE, loaded |-> loadOk]
      [] host.platform = "linux" -> [file |-> TRUE, loaded |-> loadOk]
      [] OTHER -> svc

InstallWritesMeta(loadOk) ==
    \/ host.platform = "darwin" /\ loadOk
    \/ host.platform = "linux"

InstallManager == IF host.platform = "darwin" THEN "launchd" ELSE "systemd"

InstalledMeta(now) ==
    DaemonMetaRecord([ReadDaemonMeta EXCEPT !.manager = InstallManager,
                                            !.backendDir = DetectBackendDir,
                                            !.outLog = OutLogPath,
                                            !.errLog = ErrLogPath], now)

\* onboard's normalisation of the two keys it rewrites.
OnboardValues(values) ==
    LET m == ToLowerCase(Trim(OrElse(values, <<KeyMode>>, <<"single">>)))
        mode == IF m \in RuntimeModes THEN m ELSE <<"single">>
        w == ToLowerCase(Trim(OrElse(values, <<KeyWebhook>>, <<"false">>)))
        webhook == IF w = <<"true">> THEN <<"true">> ELSE <<"false">>
    IN Put(Put(values, <<KeyMode>>, mode), <<KeyWebhook>>, webhook)

\* The whole of onboard({installDaemonFlag}) and main's process.exit(0).
Onboard(s, installDaemonFlag, loadOk) ==
    /\ CanBegin(s)
    /\ clock' = clock + 1
    /\ logDir' = TRUE
    /\ appHome' = TRUE
    /\ svc' = IF installDaemonFlag THEN InstalledService(loadOk) ELSE svc
    /\ metaFile' = IF installDaemonFlag /\ InstallWritesMeta(loadOk)
                   THEN InstalledMeta(clock + 1) ELSE metaFile
    /\ \E values \in {OnboardValues(ParseEnv(WriteEnvTemplate.lines))} :
          /\ envFile' = [exists |-> TRUE, lines |-> RenderEnv(values)]
          /\ Finish(s, [Invocation("onboard", FALSE) EXCEPT
                           !.checks = ValidateEnv(values).errors])
    /\ UNCHANGED <<host, osVars, logFiles, snapFile>>

----------------------------------------------------------------------------
(* onboard --interactive [--yes] [--install-daemon]                         *)

\* promptInput(rl, prompt, defaultValue): input.trim() || defaultValue
PromptInput(answer, defaultValue) ==
    IF Trim(answer) # <<>> THEN Trim(answer) ELSE defaultValue

\* generateAdminToken(): random; one token stands for all of them.
GeneratedToken == <<"genxbot_0123abcd">>

\* The mode kept from the file: coerced to single when it is not a mode.
SelectedMode(values) ==
    LET m == ToLowerCase(Trim(OrElse(values, <<KeyMode>>, <<"single">>)))
    IN IF m \in RuntimeModes THEN m ELSE <<"single">>

\* while (!modes.includes(selectedMode.toLowerCase())) ask again: the mode
\* chosen and the answers not yet read; no mode while the prompt still waits.
RECURSIVE ModeLoop(_, _)
ModeLoop(selected, answers) ==
    IF ToLowerCase(selected) \in RuntimeModes
    THEN [done |-> TRUE, mode |-> ToLowerCase(selected), rest |-> answers]
    ELSE IF answers = <<>>
    THEN [done |-> FALSE, mode |-> <<>>, rest |-> <<>>]
    ELSE ModeLoop(PromptInput(Head(answers), <<"single">>), Tail(answers))

\* if (yes): the defaults are taken without a prompt.
AcceptedValues(values) ==
    LET v1 == Put(values, <<KeyMode>>, SelectedMode(values))
        v2 == Put(v1, <<KeyWebhook>>, OrElse(values, <<KeyWebhook>>, <<"false">>))
    IN IF OrElse(values, <<KeyAdmin>>, <<>>) = <<>>
       THEN Put(v2, <<KeyAdmin>>, GeneratedToken)
       ELSE v2

\* else: the five prompts, answered by in.
PromptedValues(values, in) ==
    LET openai == PromptInput(in.openai, OrElse(values, <<KeyOpenAI>>, <<>>))
        admin0 == PromptInput(in.admin, OrElse(values, <<KeyAdmin>>, <<>>))
        create == PromptInput(in.create, <<"Y">>)
        admin == IF admin0 = <<>> /\ ToLowerCase(create) \in {<<"y">>, <<"yes">>}
                 THEN GeneratedToken ELSE admin0
        first == PromptInput(Head(in.modes), SelectedMode(values))
        mode == ModeLoop(first, Tail(in.modes)).mode
        webhook == PromptInput(in.webhook, OrElse(values, <<KeyWebhook>>, <<"false">>))
        flag == IF ToLowerCase(webhook) = <<"true">> THEN <<"true">> ELSE <<"false">>
    IN Put(Put(Put(Put(values, <<KeyOpenAI>>, openai), <<KeyAdmin>>, admin),
               <<KeyMode>>, mode), <<KeyWebhook>>, flag)

\* The prompts are all answered: the mode loop ends on the last answer.
AnswersAll(values, in) ==
    LET r == ModeLoop(PromptInput(Head(in.modes), SelectedMode(values)), Tail(in.modes))
    IN r.done /\ r.rest = <<>>

PromptAnswers ==
    [openai : {<<>>, <<"sk-new">>},
     admin : {<<>>, <<"tok-new">>},
     create : {<<>>, <<"n">>},
     modes : {<< <<>> >>, << <<"Multi">> >>, << <<"turbo">>, <<>> >>,
              << <<"turbo">>, <<"hybrid">> >>},
     webhook : {<<>>, <<"TRUE">>}]

\* The whole of interactiveOnboard({yes}), main's installDaemon and exit(0).
\* Without --yes the prompts are answered by some script of PromptAnswers.
InteractiveOnboard(s, yes, installDaemonFlag, loadOk) ==
    /\ CanBegin(s)
    /\ clock' = clock + 1
    /\ logDir' = TRUE
    /\ appHome' = TRUE
    /\ svc' = IF installDaemonFlag THEN InstalledService(loadOk) ELSE svc
    /\ metaFile' = IF installDaemonFlag /\ InstallWritesMeta(loadOk)
                   THEN InstalledMeta(clock + 1) ELSE metaFile
    /\ \E loaded \in {ParseEnv(WriteEnvTemplate.lines)} :
       \E values \in IF yes THEN {AcceptedValues(loaded)}
                     ELSE {PromptedValues(loaded, in) :
                             in \in {a \in PromptAnswers : AnswersAll(loaded, a)}} :
          /\ envFile' = [exists |-> TRUE, lines |-> RenderEnv(values)]
          /\ Finish(s, [Invocation("onboard_interactive", yes) EXCEPT
                           !.checks = ValidateEnv(values).errors])
    /\ UNCHANGED <<host, osVars, logFiles, snapFile>>

----------------------------------------------------------------------------
(* doctor                                                                   *)

\* What the probes of one doctor run find on the machine, besides the
\* interpreters: TRUE is the good answer.
FactNames ==
    {"node", "npm", "pip", "uvicorn", "fastapi", "backendReq", "frontendPkg",
     "nodeModules", "port8000", "port5173"}

ProbeFacts ==
    {[f \in FactNames |-> f \notin bad] :
        bad \in {b \in SUBSET FactNames : Cardinality(b) <= MaxDeficiencies}}

Check_FailsWhenBad(name, ok, otherwise) ==
    [name |-> name, level |-> IF ok THEN "PASS" ELSE "FAIL"]

\* add(name, level, detail): one line of the report.
Check(name, ok, otherwise) == [name |-> name, level |-> IF ok THEN "PASS" ELSE otherwise]

\* detectPythonCommand()
DetectPythonCommand ==
    IF host.python3 THEN "python3" ELSE IF host.python THEN "python" ELSE "null"

ValidationChecks_AllFail(messages, level) ==
    [i \in 1..Len(messages) |-> [name |-> "env_validation", level |-> "FAIL"]]

\* for (const m of envValidation[...]) add("env_validation", level, m)
ValidationChecks(messages, level) ==
    [i \in 1..Len(messages) |-> [name |-> "env_validation", level |-> level]]

\* The battery, in the order doctor runs it.
Battery(envValues, facts, o) ==
    LET envValidation == ValidateEnv(envValues)
        pyCommand == DetectPythonCommand
    IN << Check("node", facts.node, "FAIL"),
          Check("npm", facts.npm, "FAIL"),
          Check("python", pyCommand # "null", "FAIL"),
          Check("pip", facts.pip, "WARN"),
          Check("uvicorn", facts.uvicorn, "WARN"),
          Check("python_fastapi", pyCommand # "null" /\ facts.fastapi, "WARN"),
          Check("backend_dir", facts.backendReq, "FAIL"),
          Check("frontend_dir", facts.frontendPkg, "WARN"),
          Check("backend_requirements", facts.backendReq, "FAIL"),
          Check("frontend_node_modules", facts.nodeModules, "WARN"),
          Check("app_home", appHome, "WARN"),
          Check("log_dir", logDir, "WARN"),
          Check("env_file", envFile.exists, "WARN"),
          Check("openai_token", Trim(OrElse(envValues, <<KeyOpenAI>>, <<>>)) # <<>>, "WARN"),
          Check("admin_token", Trim(OrElse(envValues, <<KeyAdmin>>, <<>>)) # <<>>, "WARN") >>
       \o ValidationChecks(envValidation.warnings, "WARN")
       \o ValidationChecks(envValidation.errors, "FAIL")
       \o << Check("port_8000", facts.port8000, "WARN"),
             Check("port_5173", facts.port5173, "WARN"),
             Check("backend_api", ProbeHttp(o).ok, "WARN") >>

\* A report that ends with its first FAIL.
RECURSIVE UntilFail(_)
UntilFail(checks) ==
    IF checks = <<>> THEN <<>>
    ELSE IF Head(checks).level = "FAIL" THEN <<Head(checks)>>
    ELSE <<Head(checks)>> \o UntilFail(Tail(checks))

DoctorChecks_UntilFail(envValues, facts, o) == UntilFail(Battery(envValues, facts, o))

\* The `checks` array when doctor counts it: no add() is conditional on an
\* earlier level, and nothing returns or exits before the summary.
DoctorChecks(envValues, facts, o) == Battery(envValues, facts, o)

\* checks.filter((c) => c.level === level).length
RECURSIVE CountLevel(_, _)
CountLevel(checks, level) ==
    IF checks = <<>> THEN 0
    ELSE (IF Head(checks).level = level THEN 1 ELSE 0) + CountLevel(Tail(checks), level)

DoctorSummary(checks) ==
    [PASS |-> CountLevel(checks, "PASS"),
     WARN |-> CountLevel(checks, "WARN"),
     FAIL |-> CountLevel(checks, "FAIL")]

DoctorExitCode_WarnBlocks(summary) == IF summary.FAIL + summary.WARN > 0 THEN 1 ELSE 0

\* if (summary.FAIL > 0) process.exit(1); main: process.exit(0)
DoctorExitCode(summary) == IF summary.FAIL > 0 THEN 1 ELSE 0

\* doctor once the API probe has resolved to o, on a machine where facts
\* hold: the checks, the summary, the exit.
DoctorReport(s, c, facts, o) ==
    \E envValues \in {LoadEnvValues} :
    \E checks \in {DoctorChecks(envValues, facts, o)} :
    \E summary \in {DoctorSummary(checks)} :
       Finish(s, [c EXCEPT !.checks = checks,
                           !.summary = summary,
                           !.exit = DoctorExitCode(summary)])

\* The whole of doctor: it reads, probes and reports, and writes nothing.
\* Each run finds some facts on the machine and some answer from the API.
Doctor(s) ==
    /\ CanBegin(s)
    /\ clock' = clock + 1
    /\ \E facts \in ProbeFacts, o \in HttpOutcomes :
          DoctorReport(s, Invocation("doctor", FALSE), facts, o)
    /\ UNCHANGED <<host, osVars, fsVars>>

----------------------------------------------------------------------------
(* The supervisor driven by one invocation after another.                   *)

\* A machine on which nothing of GenXBot exists yet.
FreshDisk ==
    /\ appHome = FALSE
    /\ logDir = FALSE
    /\ logFiles = FALSE
    /\ envFile = NoFile
    /\ metaFile = NoFile
    /\ snapFile = NoFile
    /\ svc = NoService

NoDaemon ==
    /\ alive = {}
    /\ stubborn = {}
    /\ nextPid = 1
    /\ cli = [s \in Slots |-> Idle]
    /\ last = NoRun
    /\ prev = Earlier(NoRun)

\* The machines: the platform and the interpreters on PATH.
Hosts ==
    {[platform |-> "darwin", python3 |-> TRUE, python |-> FALSE, others |-> {}],
     [platform |-> "linux", python3 |-> FALSE, python |-> TRUE, others |-> {}],
     [platform |-> "other", python3 |-> FALSE, python |-> FALSE, others |-> {}]}

Init ==
    /\ host \in Hosts
    /\ clock = 0
    /\ FreshDisk
    /\ NoDaemon

Next ==
    \/ \E s \in Slots : StartBegin(s)
    \/ \E s \in Slots : StartSpawn(s)
    \/ \E s \in Slots : StartSleep(s)
    \/ \E s \in Slots : StopBegin(s)
    \/ \E s \in Slots : StopTerm(s)
    \/ \E s \in Slots : StopPoll(s)
    \/ \E s \in Slots : StopSleep(s)
    \/ \E s \in Slots : StopEscalate(s)
    \/ \E s \in Slots : StopKill(s)
    \/ \E s \in Slots : StopFinish(s)
    \/ \E s \in Slots : StatusBegin(s)
    \/ \E s \in Slots, yes \in BOOLEAN : UninstallBegin(s, yes)
    \/ \E s \in Slots : UninstallCleanup(s)
    \/ \E s \in Slots : UninstallRemoveUnit(s)
    \/ \E s \in Slots : UninstallRemoveHome(s)
    \/ \E s \in Slots : Snap(s)
    \/ \E s \in Slots, flag \in BOOLEAN, loadOk \in BOOLEAN : Onboard(s, flag, loadOk)
    \/ \E p \in alive : ProcExit(p)

Spec == Init /\ [][Next]_vars

----------------------------------------------------------------------------
(* The configuration commands run on an env file that was edited by hand.   *)

\* Lines a hand-edited env file may hold.
EnvLines ==
    { <<>>,
      <<HASH, "note">>,
      <<"FUTURE_KEY", EQ, "abc">>,
      <<KeyMode, EQ, "turbo">>,
      <<SP, KeyMode, SP, EQ, SP, "Multi", SP>>,
      <<KeyMode, EQ>>,
      <<KeyOpenAI, EQ, "sk", EQ, "x">>,
      <<KeyAdmin, EQ, "tok">>,
      <<KeyWebhook, EQ, "TRUE">>,
      <<EQ, "orphan">>,
      <<"novalue">> }

RECURSIVE FilesOfAtMost(_)
FilesOfAtMost(n) ==
    IF n = 0 THEN {<<>>}
    ELSE LET shorter == FilesOfAtMost(n - 1)
         IN shorter \cup {Append(f, l) : f \in shorter, l \in EnvLines}

EnvFiles ==
    {NoFile} \cup {[exists |-> TRUE, lines |-> f] : f \in FilesOfAtMost(MaxEnvLines) \ {<<>>}}

EnvInit ==
    /\ host \in Hosts
    /\ clock = MaxClock - 1
    /\ envFile \in EnvFiles
    /\ logDir \in BOOLEAN
    /\ appHome = (envFile.exists \/ logDir)
    /\ logFiles = FALSE
    /\ metaFile = NoFile
    /\ snapFile = NoFile
    /\ svc = NoService
    /\ NoDaemon

EnvNext ==
    \/ \E s \in Slots, flag \in BOOLEAN, loadOk \in BOOLEAN : Onboard(s, flag, loadOk)
    \/ \E s \in Slots, yes \in BOOLEAN, flag \in BOOLEAN, loadOk \in BOOLEAN :
          InteractiveOnboard(s, yes, flag, loadOk)
    \/ \E s \in Slots : Doctor(s)

SpecEnv == EnvInit /\ [][EnvNext]_vars

----------------------------------------------------------------------------
(* Two terminals: invocations of start, stop and status that overlap.  The  *)
(* files are shared without a lock; an invocation yields to the other at    *)
(* each await (sleep, probe) and between two system calls on the daemon.    *)

ConcSlots == {"a", "b"}

\* The disk and the OS as a completed `genxbot start` leaves them, the
\* daemon (pid 1) still running.
DaemonStarted(o, ignoresTerm) ==
    /\ appHome = TRUE
    /\ logDir = TRUE
    /\ logFiles = TRUE
    /\ envFile = [exists |-> TRUE, lines |-> RenderEnv(NoValues)]
    /\ alive = {1}
    /\ stubborn = IF ignoresTerm THEN {1} ELSE {}
    /\ nextPid = 2
    /\ metaFile = [exists |-> TRUE, manager |-> "cli", pid |-> 1, startedAt |-> clock,
                   stoppedAt |-> Null, backendDir |-> DetectBackendDir,
                   pythonCommand |-> ResolveDaemonPythonCommand, args |-> DaemonArgs,
                   outLog |-> OutLogPath, errLog |-> ErrLogPath, uninstallAt |-> Null,
                   updatedAt |-> clock]
    /\ snapFile = HealthSnapshot([event |-> "start"], o, clock)

ConcInit ==
    /\ host \in {h \in Hosts : h.python3 \/ h.python}
    /\ clock = MaxClock - 2
    /\ \/ FreshDisk /\ alive = {} /\ stubborn = {} /\ nextPid = 1
       \/ /\ svc = NoService
          /\ \E ignoresTerm \in BOOLEAN : DaemonStarted(Response("daemon", 200), ignoresTerm)
    /\ cli = [s \in ConcSlots |-> Idle]
    /\ last = NoRun
    /\ prev = Earlier(NoRun)

ConcNext ==
    \/ \E s \in ConcSlots : StartBegin(s)
    \/ \E s \in ConcSlots : StartSpawn(s)
    \/ \E s \in ConcSlots : StartSleep(s)
    \/ \E s \in ConcSlots : StopBegin(s)
    \/ \E s \in ConcSlots : StopTerm(s)
    \/ \E s \in ConcSlots : StopPoll(s)
    \/ \E s \in ConcSlots : StopSleep(s)
    \/ \E s \in ConcSlots : StopEscalate(s)
    \/ \E s \in ConcSlots : StopKill(s)
    \/ \E s \in ConcSlots : StopFinish(s)
    \/ \E s \in ConcSlots : StatusBegin(s)
    \/ \E s \in ConcSlots : Snap(s)
    \/ \E p \in alive : ProcExit(p)

SpecConc == ConcInit /\ [][ConcNext]_vars

----------------------------------------------------------------------------
(* The CLI process dies (power loss, kill -9) inside one of its writes.     *)

Crashed(c) == [c EXCEPT !.ret = "crashed", !.exit = 137]

\* startDaemon dies in writeDaemonMeta(nextMeta): the child is spawned.
CrashInStartWrite(s) ==
    /\ cli[s].pc = "spawn"
    /\ \E ignoresTerm \in BOOLEAN :
         LET c == cli[s]
             pid == nextPid
         IN /\ alive' = alive \cup {pid}
            /\ stubborn' = IF ignoresTerm THEN stubborn \cup {pid} ELSE stubborn
            /\ nextPid' = nextPid + 1
            /\ logFiles' = TRUE
            /\ metaFile' \in InterruptedWrite(DaemonMetaRecord(
                               StartedMeta(c.meta, pid, ResolveDaemonPythonCommand, c.now),
                               c.now))
            /\ Finish(s, Crashed([c EXCEPT !.launched = pid]))
    /\ UNCHANGED <<host, clock, appHome, logDir, envFile, snapFile, svc>>

\* stopDaemon dies in its writeDaemonMeta({...meta, pid: null, stoppedAt}).
CrashInStopWrite(s) ==
    /\ cli[s].pc = "stop_finish"
    /\ cli[s].stopped
    /\ metaFile' \in InterruptedWrite(
                        DaemonMetaRecord(StoppedMeta(cli[s].meta, cli[s].now), cli[s].now))
    /\ Finish(s, Crashed(cli[s]))
    /\ UNCHANGED <<host, clock, osVars, appHome, logDir, logFiles, envFile, snapFile, svc>>

\* writeHealthSnapshot dies in writeJsonFile(HEALTH_SNAPSHOT_PATH, snapshot).
CrashInSnapWrite(s) ==
    /\ cli[s].pc = "snap"
    /\ \E o \in HttpOutcomes :
          snapFile' \in InterruptedWrite(HealthSnapshot(cli[s].extra, o, cli[s].now))
    /\ Finish(s, Crashed(cli[s]))
    /\ UNCHANGED <<host, clock, osVars, appHome, logDir, logFiles, envFile, metaFile, svc>>

CrashInit ==
    /\ host \in Hosts
    /\ clock = MaxClock - 2
    /\ FreshDisk
    /\ NoDaemon

CrashNext ==
    \/ \E s \in Slots : StartBegin(s)
    \/ \E s \in Slots : StartSpawn(s)
    \/ \E s \in Slots : StartSleep(s)
    \/ \E s \in Slots : StopBegin(s)
    \/ \E s \in Slots : StopTerm(s)
    \/ \E s \in Slots : StopPoll(s)
    \/ \E s \in Slots : StopSleep(s)
    \/ \E s \in Slots : StopEscalate(s)
    \/ \E s \in Slots : StopKill(s)
    \/ \E s \in Slots : StopFinish(s)
    \/ \E s \in Slots : StatusBegin(s)
    \/ \E s \in Slots : Snap(s)
    \/ \E s \in Slots : CrashInStartWrite(s)
    \/ \E s \in Slots : CrashInStopWrite(s)
    \/ \E s \in Slots : CrashInSnapWrite(s)
    \/ \E p \in alive : ProcExit(p)

SpecCrash == CrashInit /\ [][CrashNext]_vars

----------------------------------------------------------------------------
(* start and status against an endpoint that may answer anything, from the  *)
(* daemon or from an unrelated process that holds port 8000.                *)

ProbeInit ==
    /\ host \in Hosts
    /\ clock = MaxClock - 2
    /\ FreshDisk
    /\ NoDaemon

ProbeNext ==
    \/ \E s \in Slots : StartBegin(s)
    \/ \E s \in Slots : StartSpawn(s)
    \/ \E s \in Slots : StartSleep(s)
    \/ \E s \in Slots : StatusBegin(s)
    \/ \E s \in Slots : SnapProbe(s)
    \/ \E p \in alive : ProcExit(p)

SpecProbe == ProbeInit /\ [][ProbeNext]_vars

----------------------------------------------------------------------------
(* One command at a time, each await a step of its own: the probe is a      *)
(* request that is out until the endpoint answers, the connection fails or  *)
(* the socket has been silent for the timeout; the event loop is fair.      *)

\* An endpoint that accepts the connection and sends a response head a few
\* bytes at a time, without ever ending it.
Dripping == [kind |-> "drip", server |-> "other", statusCode |-> Null]

\* What may be listening on 127.0.0.1:8000.
Endpoints == HttpOutcomes \cup {Dripping}

\* A request is out: nothing read yet, part of a head read, or silence.
Probing == {"probing", "probe_partial", "probe_quiet"}

\* doctor up to `await probeHttp(...)`.
DoctorBegin(s) ==
    /\ CanBegin(s)
    /\ clock' = clock + 1
    /\ cli' = [cli EXCEPT ![s] = [Invocation("doctor", FALSE) EXCEPT !.pc = "snap"]]
    /\ UNCHANGED <<host, osVars, fsVars, last, prev>>

\* http.get(url, { timeout: 1500 }, ...): the request leaves for endpoint o.
ProbeBegin(s) ==
    /\ cli[s].pc = "snap"
    /\ \E o \in Endpoints :
          cli' = [cli EXCEPT ![s] =
                    [@ EXCEPT !.pc = "probing", !.probe = [in |-> o, out |-> NoProbe.out]]]
    /\ UNCHANGED <<host, clock, osVars, fsVars, last, prev>>

\* The promise is resolved with ProbeHttp(o); the awaiting command goes on.
ProbeResolve(s, o) ==
    IF cli[s].cmd = "doctor"
    THEN /\ \E facts \in ProbeFacts :
               DoctorReport(s, [cli[s] EXCEPT !.probe = [in |-> o, out |-> ProbeHttp(o)]],
                            facts, o)
         /\ UNCHANGED <<host, clock, osVars, fsVars>>
    ELSE SnapBody(s, o)

\* The response callback, or the request's "error" event.
ProbeAnswer(s) ==
    /\ cli[s].pc \in Probing
    /\ cli[s].probe.in.kind \in {"response", "error"}
    /\ ProbeResolve(s, cli[s].probe.in)

\* Part of the 1500 ms passes with nothing read from the socket.
ProbeTick(s) ==
    /\ cli[s].pc \in {"probing", "probe_partial"}
    /\ cli[s].probe.in.kind \in {"timeout", "drip"}
    /\ cli' = [cli EXCEPT ![s] = [@ EXCEPT !.pc = "probe_quiet"]]
    /\ UNCHANGED <<host, clock, osVars, fsVars, last, prev>>

\* Bytes arrive that do not complete a response head: the socket's
\* inactivity timer starts again.
ProbeDrip(s) ==
    /\ cli[s].pc = "probe_quiet"
    /\ cli[s].probe.in.kind = "drip"
    /\ cli' = [cli EXCEPT ![s] = [@ EXCEPT !.pc = "probe_partial"]]
    /\ UNCHANGED <<host, clock, osVars, fsVars, last, prev>>

\* The rest of the 1500 ms passes in silence: the "timeout" event,
\* req.destroy(), resolve({ ok: false, error: "timeout" }).
ProbeTimeout(s) ==
    /\ cli[s].pc = "probe_quiet"
    /\ ProbeResolve(s, cli[s].probe.in)

\* showLogs: nothing to show, the last lines of the logs, or tail -f.
LogsBegin(s, follow) ==
    /\ CanBegin(s)
    /\ clock' = clock + 1
    /\ LET c == [Invocation("logs", FALSE) EXCEPT !.meta = ReadDaemonMeta]
       IN IF ~logFiles
          THEN Finish(s, [c EXCEPT !.ret = "no_logs"])
          ELSE IF follow
          THEN /\ cli' = [cli EXCEPT ![s] = [c EXCEPT !.pc = "following"]]
               /\ UNCHANGED <<last, prev>>
          ELSE Finish(s, [c EXCEPT !.ret = "shown"])
    /\ UNCHANGED <<host, osVars, fsVars>>

\* Ctrl+C while tail -f runs.
Interrupt(s) ==
    /\ cli[s].pc = "following"
    /\ Finish(s, [cli[s] EXCEPT !.ret = "interrupted", !.exit = 130])
    /\ UNCHANGED <<host, clock, osVars, fsVars>>

\* main's last lines: "Unknown command", printHelp(), process.exit(1).
UnknownCommand(s) ==
    /\ CanBegin(s)
    /\ clock' = clock + 1
    /\ Finish(s, [Invocation("unknown", FALSE) EXCEPT !.exit = 1])
    /\ UNCHANGED <<host, osVars, fsVars>>

LiveInit ==
    /\ host \in Hosts
    /\ clock = MaxClock - 1
    /\ \/ FreshDisk /\ alive = {} /\ stubborn = {} /\ nextPid = 1
       \/ /\ host.python3 \/ host.python
          /\ svc = NoService
          /\ \E ignoresTerm \in BOOLEAN : DaemonStarted(Response("daemon", 200), ignoresTerm)
    /\ cli = [s \in Slots |-> Idle]
    /\ last = NoRun
    /\ prev = Earlier(NoRun)

\* The steps the CLI takes by itself once a command has begun.
LiveStep(s) ==
    \/ StartSpawn(s)
    \/ StartSleep(s)
    \/ StopTerm(s)
    \/ StopPoll(s)
    \/ StopSleep(s)
    \/ StopEscalate(s)
    \/ StopKill(s)
    \/ StopFinish(s)
    \/ ProbeBegin(s)
    \/ ProbeAnswer(s)
    \/ ProbeTick(s)
    \/ ProbeTimeout(s)

LiveNext ==
    \/ \E s \in Slots : StartBegin(s)
    \/ \E s \in Slots : StopBegin(s)
    \/ \E s \in Slots : StatusBegin(s)
    \/ \E s \in Slots : DoctorBegin(s)
    \/ \E s \in Slots, follow \in BOOLEAN : LogsBegin(s, follow)
    \/ \E s \in Slots : UnknownCommand(s)
    \/ \E s \in Slots : LiveStep(s)
    \/ \E s \in Slots : ProbeDrip(s)
    \/ \E s \in Slots : Interrupt(s)
    \/ \E p \in alive : ProcExit(p)

SpecLive == LiveInit /\ [][LiveNext]_vars /\ \A s \in Slots : WF_vars(LiveStep(s))

----------------------------------------------------------------------------
(* The commands on a machine where the snapshot file is deleted or          *)
(* rewritten behind the supervisor's back, at any moment.                   *)

\* Snapshots nobody wrote: one that calls pid 1 alive and the API up, one
\* that knows of no daemon.
ForgedSnapshot(pid, up) ==
    [exists |-> TRUE,
     timestamp |-> 0,
     event |-> "status",
     daemon |-> [manager |-> "cli", pid |-> pid, pidAlive |-> up, startedAt |-> Null,
                 stoppedAt |-> Null, backendDir |-> DetectBackendDir],
     backendApi |-> [reachable |-> up,
                     statusCode |-> IF up THEN 200 ELSE Null,
                     error |-> IF up THEN "null" ELSE "ECONNREFUSED"]]

SnapAlternatives == {NoFile, ForgedSnapshot(1, TRUE)}

\* health.snapshot.json, as the supervisor left it, is removed or replaced
\* by something else.
SnapshotTampered ==
    /\ snapFile # ForgedSnapshot(1, TRUE)
    /\ snapFile' \in SnapAlternatives \ {snapFile}
    /\ UNCHANGED <<host, clock, osVars, appHome, logDir, logFiles, envFile, metaFile,
                   svc, cli, last, prev>>

\* A step of a lifecycle command.
CommandStep(s) ==
    \/ StartBegin(s)
    \/ StartSpawn(s)
    \/ StartSleep(s)
    \/ StopBegin(s)
    \/ StopTerm(s)
    \/ StopPoll(s)
    \/ StopSleep(s)
    \/ StopEscalate(s)
    \/ StopKill(s)
    \/ StopFinish(s)
    \/ StatusBegin(s)
    \/ \E yes \in BOOLEAN : UninstallBegin(s, yes)
    \/ UninstallCleanup(s)
    \/ UninstallRemoveUnit(s)
    \/ UninstallRemoveHome(s)
    \/ Snap(s)

\* The unit file that `onboard --install-daemon` leaves, where there is a
\* service manager.
Services ==
    {NoService}
    \cup (IF host.platform \in {"darwin", "linux"}
          THEN {[file |-> TRUE, loaded |-> TRUE]} ELSE {})

TamperInit ==
    /\ host \in Hosts
    /\ clock = MaxClock - 1
    /\ \/ FreshDisk /\ alive = {} /\ stubborn = {} /\ nextPid = 1
       \/ /\ host.python3 \/ host.python
          /\ svc \in Services
          /\ \E ignoresTerm \in BOOLEAN : DaemonStarted(Response("daemon", 200), ignoresTerm)
    /\ cli = [s \in Slots |-> Idle]
    /\ last = NoRun
    /\ prev = Earlier(NoRun)

TamperNext ==
    \/ \E s \in Slots : CommandStep(s)
    \/ \E s \in Slots : Doctor(s)
    \/ \E p \in alive : ProcExit(p)
    \/ SnapshotTampered

SpecTamper == TamperInit /\ [][TamperNext]_vars

----------------------------------------------------------------------------
(* The recorded daemon exits and the OS hands its pid to another process    *)
(* of the same user before the next command looks at the record.            *)

\* process.kill(pid, 0) succeeds for any process of the user that has the
\* pid: the OS reuses the pids of processes that are gone.
PidReused(p) ==
    /\ p \in 1..(nextPid - 1)
    /\ p \notin alive
    /\ \A s \in Slots : cli[s].pc = "idle"
    /\ alive' = alive \cup {p}
    /\ host' = [host EXCEPT !.others = @ \cup {p}]
    /\ UNCHANGED <<clock, stubborn, nextPid, fsVars, cli, last, prev>>

ReuseInit ==
    /\ host \in {h \in Hosts : h.python3 \/ h.python}
    /\ clock = MaxClock - 1
    /\ svc \in Services
    /\ DaemonStarted(Response("daemon", 200), FALSE)
    /\ cli = [s \in Slots |-> Idle]
    /\ last = NoRun
    /\ prev = Earlier(NoRun)

ReuseNext ==
    \/ \E s \in Slots : CommandStep(s)
    \/ \E p \in alive : ProcExit(p)
    \/ \E p \in 1..(nextPid - 1) : PidReused(p)

SpecReuse == ReuseInit /\ [][ReuseNext]_vars

----------------------------------------------------------------------------
(* Properties.                                                              *)

\* No invocation is in flight: the last command has returned.
AtRest == cli["a"].pc = "idle"

PidOf(file) == IF file.exists THEN file.pid ELSE Null

\* The record held a pid when the last command began, and whether the OS
\* still had that process.
RecordedPid == PidOf(last.pre.meta)
WasAlive == RecordedPid # Null /\ RecordedPid \in last.pre.alive
WasZombie == RecordedPid # Null /\ RecordedPid \notin last.pre.alive

Delivered(sigs, sig) == \E i \in 1..Len(sigs) : sigs[i].sig = sig /\ sigs[i].delivered

\* What a command may change on disk, as it was when the last command began.
DiskNow ==
    [meta |-> metaFile, snap |-> snapFile, env |-> envFile, appHome |-> appHome,
     logDir |-> logDir, logFiles |-> logFiles, svc |-> svc]

DiskBefore ==
    [meta |-> last.pre.meta, snap |-> last.pre.snap, env |-> last.pre.env,
     appHome |-> last.pre.appHome, logDir |-> last.pre.logDir,
     logFiles |-> last.pre.logFiles, svc |-> last.pre.svc]

\* C1: a start that follows a start, with the recorded process alive when it
\* looks, launches nothing: it takes the already-running branch, the record
\* keeps the pid the first start left, and no second daemon exists.
C1_StartTwiceOneProcess ==
    (AtRest /\ last.cmd = "start" /\ prev.cmd = "start" /\ WasAlive)
        => /\ last.extra.event = "start_skipped_already_running"
           /\ last.launched = Null
           /\ last.exit = 0
           /\ PidOf(metaFile) = RecordedPid
           /\ alive \subseteq {RecordedPid}
           /\ (RecordedPid \in alive => Cardinality(alive) = 1)

C1_Witness ==
    /\ AtRest /\ last.cmd = "start" /\ prev.cmd = "start"
    /\ prev.launched # Null /\ prev.launched = RecordedPid
    /\ last.extra.event = "start_skipped_already_running"
    /\ alive = {RecordedPid}

\* C2: of two stops in a row both succeed (exit code 0), and the second sends
\* no signal and leaves the record as the first stop left it.
C2_StopTwiceBothSucceed ==
    (AtRest /\ last.cmd = "stop" /\ prev.cmd = "stop")
        => /\ prev.exit = 0 /\ prev.ret = "true"
           /\ last.exit = 0 /\ last.ret = "true"
           /\ last.sigs = <<>>
           /\ metaFile = last.pre.meta

\* C3: stop on a record whose pid the OS no longer has sends no signal,
\* rewrites the record with pid null and stoppedAt = now (the other fields
\* kept), and exits 0.
C3_StopClearsStalePid ==
    (AtRest /\ last.cmd = "stop" /\ WasZombie)
        => /\ last.sigs = <<>>
           /\ last.exit = 0 /\ last.ret = "true"
           /\ metaFile = [last.pre.meta EXCEPT !.pid = Null, !.stoppedAt = clock,
                                               !.updatedAt = clock]
           /\ last.now = clock

C3_Witness ==
    /\ AtRest /\ last.cmd = "stop" /\ WasZombie
    /\ metaFile.pid = Null /\ metaFile.stoppedAt = clock
    /\ metaFile.startedAt # Null

\* C4: status on a record whose pid the OS no longer has leaves the record
\* on disk with its pid cleared, and raises no error.
C4_StatusClearsStalePid ==
    (AtRest /\ last.cmd = "status" /\ WasZombie)
        => PidOf(metaFile) = Null /\ last.exit = 0

\* C5: in a stop on a live pid SIGTERM is the first signal; the loop is left
\* with the process still there only after PollLimit polls found it alive,
\* and SIGKILL is sent only then, after SIGTERM; a daemon that ignores
\* SIGTERM is gone when stop returns and the snapshot says forced = true;
\* the snapshot of a stop says forced exactly when SIGKILL was delivered.
C5_SignalOrder(sigs, pid) ==
    /\ Len(sigs) <= 2
    /\ \A i \in 1..Len(sigs) : sigs[i].pid = pid
    /\ Len(sigs) >= 1 => sigs[1].sig = "SIGTERM"
    /\ Len(sigs) = 2 => sigs[2].sig = "SIGKILL" /\ sigs[1].delivered

C5_Inv ==
    /\ C5_SignalOrder(cli["a"].sigs, PidOf(cli["a"].meta))
    /\ cli["a"].pc \in {"poll", "poll_sleep"}
          => Len(cli["a"].sigs) = 1 /\ cli["a"].i < PollLimit
    /\ cli["a"].pc = "sigkill" => Len(cli["a"].sigs) = 1 /\ ~cli["a"].stopped
    /\ (AtRest /\ last.cmd = "stop" /\ WasAlive)
          => /\ C5_SignalOrder(last.sigs, RecordedPid)
             /\ Len(last.sigs) >= 1
             /\ (RecordedPid \in stubborn)
                   => /\ RecordedPid \notin alive
                      /\ Delivered(last.sigs, "SIGTERM")
                      /\ Delivered(last.sigs, "SIGKILL")
                      /\ snapFile.event = "stop" /\ snapFile.forced
                      /\ last.exit = 0
             /\ snapFile.event = "stop"
                   => (snapFile.forced <=> Delivered(last.sigs, "SIGKILL"))
             /\ (last.ret = "true" /\ ~Delivered(last.sigs, "SIGKILL"))
                   => snapFile.event = "stop" /\ ~snapFile.forced

\* The loop is left without `stopped` only by its PollLimit-th sleep.
C5_Step ==
    (cli["a"].pc \in {"poll", "poll_sleep"} /\ cli'["a"].pc = "escalate"
        /\ ~cli'["a"].stopped)
        => cli["a"].pc = "poll_sleep" /\ cli["a"].i + 1 = PollLimit

C5_EscalationOrder == []C5_Inv /\ [][C5_Step]_vars

C5_Witness ==
    /\ AtRest /\ last.cmd = "stop" /\ WasAlive
    /\ RecordedPid \in stubborn
    /\ Delivered(last.sigs, "SIGKILL")
    /\ snapFile.event = "stop" /\ snapFile.forced

\* C6: stop reports failure only if the process is still alive when it
\* decides; when the process is gone, stop succeeds and clears the pid.
C6_StopFailsOnlyIfAlive ==
    /\ (cli["a"].pc = "snap" /\ cli["a"].extra.event = "stop_failed")
          => IsProcessAlive(cli["a"].meta.pid)
    /\ (AtRest /\ last.cmd = "stop" /\ RecordedPid # Null /\ RecordedPid \notin alive
          /\ ~IsProcessAlive(RecordedPid))
          => last.exit = 0 /\ PidOf(metaFile) = Null

\* C7: uninstall without --yes exits non-zero, sends no signal, launches
\* nothing, and leaves the record, the snapshot, the env file, the
\* directories, the logs and the service registration as they were.
C7_UninstallRefusedNoEffect ==
    (AtRest /\ last.cmd = "uninstall" /\ ~last.yes)
        => /\ last.exit # 0
           /\ last.sigs = <<>>
           /\ last.launched = Null
           /\ DiskNow = DiskBefore
           /\ alive \subseteq last.pre.alive

C7_Witness ==
    /\ AtRest /\ last.cmd = "uninstall" /\ ~last.yes /\ last.exit = 1
    /\ svc.file /\ envFile.exists /\ snapFile.exists
    /\ PidOf(metaFile) \in alive

\* C8: doctor exits 0 exactly when no check of the report is FAIL, however
\* many are WARN; the summary counts the checks of each level, and the
\* three counts add up to the number of checks.
LevelCount(checks, level) == Cardinality({i \in 1..Len(checks) : checks[i].level = level})

C8_DoctorExitAndSummary ==
    (AtRest /\ last.cmd = "doctor")
        => /\ (last.exit = 0 <=> \A i \in 1..Len(last.checks) : last.checks[i].level # "FAIL")
           /\ last.exit \in {0, 1}
           /\ \A level \in {"PASS", "WARN", "FAIL"} :
                 last.summary[level] = LevelCount(last.checks, level)
           /\ last.summary.PASS + last.summary.WARN + last.summary.FAIL = Len(last.checks)

C8_Witness ==
    /\ AtRest /\ last.cmd = "doctor" /\ last.exit = 0
    /\ last.summary.WARN >= 3 /\ last.summary.FAIL = 0

\* C9: a key of the env file outside the four recognized keys is still in
\* the file, with its value, after onboard or interactive onboard rewrote it.
RecognizedKeys == {<<KeyOpenAI>>, <<KeyAdmin>>, <<KeyMode>>, <<KeyWebhook>>}

C9_UnknownKeysSurviveRewrite ==
    (AtRest /\ last.cmd \in {"onboard", "onboard_interactive"} /\ last.pre.env.exists)
        => LET before == ParseEnv(last.pre.env.lines)
               after == ParseEnv(envFile.lines)
           IN \A k \in DOMAIN before \ RecognizedKeys :
                 k \in DOMAIN after /\ after[k] = before[k]

\* C10: a runtime mode in the env file that, trimmed and lower-cased, is
\* not single, multi or hybrid is an error of validateEnv, a FAIL check of
\* doctor and a non-zero exit; a missing or empty mode is no error.
ModeOnDisk ==
    LET values == LoadEnvValues
    IN IF <<KeyMode>> \in DOMAIN values
       THEN [present |-> TRUE, mode |-> ToLowerCase(Trim(values[<<KeyMode>>]))]
       ELSE [present |-> FALSE, mode |-> <<>>]

HasValidationFail(checks) ==
    \E i \in 1..Len(checks) : checks[i].name = "env_validation" /\ checks[i].level = "FAIL"

C10_InvalidModeFails ==
    (AtRest /\ last.cmd = "doctor")
        => /\ (ModeOnDisk.mode # <<>> /\ ModeOnDisk.mode \notin RuntimeModes)
                 => /\ ValidateEnv(LoadEnvValues).errors # <<>>
                    /\ HasValidationFail(last.checks)
                    /\ last.exit # 0
           /\ (ModeOnDisk.mode = <<>>)
                 => /\ ValidateEnv(LoadEnvValues).errors = <<>>
                    /\ ~HasValidationFail(last.checks)

C10_Witness ==
    /\ AtRest /\ last.cmd = "doctor"
    /\ ModeOnDisk.mode = <<"turbo">>
    /\ HasValidationFail(last.checks) /\ last.exit = 1

\* C11: onboard and onboard --interactive --yes never turn an invalid
\* runtime mode of the env file into a valid one without their validation
\* reporting an error.
ModeOf(file) ==
    LET values == IF file.exists THEN ParseEnv(file.lines) ELSE NoValues
    IN IF <<KeyMode>> \in DOMAIN values THEN ToLowerCase(Trim(values[<<KeyMode>>]))
       ELSE <<>>

InvalidMode(mode) == mode # <<>> /\ mode \notin RuntimeModes

C11_InvalidModeNotCoerced ==
    (/\ AtRest
     /\ last.cmd = "onboard" \/ (last.cmd = "onboard_interactive" /\ last.yes)
     /\ InvalidMode(ModeOf(last.pre.env))
     /\ ModeOf(envFile) \in RuntimeModes)
        => last.checks # <<>>

\* C12: doctor on a machine without app home, log dir and env file gives
\* every configuration check the level WARN or PASS, never FAIL, and WARN
\* to the two missing secrets.
ConfigChecks ==
    {"app_home", "log_dir", "env_file", "openai_token", "admin_token", "env_validation"}

WasFresh == ~last.pre.env.exists /\ ~last.pre.appHome /\ ~last.pre.logDir

LevelsOf(checks, name) == {checks[i].level : i \in {j \in 1..Len(checks) : checks[j].name = name}}

C12_FreshDoctorWarnsOnly ==
    (AtRest /\ last.cmd = "doctor" /\ WasFresh)
        => /\ \A name \in ConfigChecks : LevelsOf(last.checks, name) \subseteq {"PASS", "WARN"}
           /\ \A name \in ConfigChecks \ {"env_validation"} :
                 LevelsOf(last.checks, name) # {}
           /\ LevelsOf(last.checks, "openai_token") = {"WARN"}
           /\ LevelsOf(last.checks, "admin_token") = {"WARN"}

C12_Witness ==
    /\ AtRest /\ last.cmd = "doctor" /\ WasFresh
    /\ LevelsOf(last.checks, "env_validation") = {"WARN"}
    /\ LevelsOf(last.checks, "env_file") = {"WARN"}
    /\ last.summary.FAIL > 0

\* C13: when an unrelated process holds port 8000 while start probes it,
\* the snapshot of that start says unreachable; a status that follows, with
\* the port still held, reports the same and exits 0.
C13_OccupiedPortUnreachable ==
    /\ (AtRest /\ last.cmd = "start" /\ last.launched # Null
          /\ last.probe.in.server = "other")
          => /\ snapFile.event = "start"
             /\ ~snapFile.backendApi.reachable
    /\ (AtRest /\ last.cmd = "status" /\ prev.cmd = "start" /\ prev.launched # Null
          /\ last.probe.in.server = "other")
          => /\ last.exit = 0
             /\ ~last.status.backendApi.reachable

\* C14, as first stated: no signal of a stop in flight has gone to a process
\* launched by a start that is in flight at the same time.
InFlight(cmd) == {s \in DOMAIN cli : cli[s].pc # "idle" /\ cli[s].cmd = cmd}

SignalledPids(s) == {cli[s].sigs[i].pid : i \in 1..Len(cli[s].sigs)}

AllAtRest == \A s \in DOMAIN cli : cli[s].pc = "idle"

Overlapped == last.now <= prev.end

LaunchedByStart ==
    IF last.cmd = "start" THEN last.launched
    ELSE IF prev.cmd = "start" THEN prev.launched ELSE Null

C15_RecordAgreesAfterOverlap ==
    (/\ AllAtRest
     /\ {last.cmd, prev.cmd} = {"start", "stop"}
     /\ Overlapped
     /\ LaunchedByStart # Null
     /\ LaunchedByStart \in alive)
        => PidOf(metaFile) = LaunchedByStart

\* C16: a crash of the CLI inside a write never leaves a record or a
\* snapshot that cannot be read back; after such a crash a reader of the
\* record gets the previous record or the complete new one, and not the
\* defaults in place of a pid that was recorded or being recorded.
C16_CrashAtomicWrites ==
    /\ ~IsTorn(metaFile)
    /\ ~IsTorn(snapFile)
    /\ (AtRest /\ last.ret = "crashed" /\ last.cmd = "start")
          => \/ ReadDaemonMeta = last.pre.meta
             \/ ReadDaemonMeta.pid = last.launched

\* C17: a step that writes the snapshot writes one made of the time of the
\* write, the record as it is on disk, a liveness test of its pid, the probe
\* just made and the caller's tags (event, forced), and of nothing else:
\* it has exactly those fields, whatever the snapshot before it held.
ProbeJustMade(s) == IF cli'[s].pc = "idle" THEN last'.probe ELSE cli'[s].probe

C17_Regenerated(s) ==
    LET record == ReadDaemonMeta
        tags == cli[s].extra
        out == ProbeJustMade(s).out
    IN /\ DOMAIN snapFile' = {"exists", "timestamp", "daemon", "backendApi"} \cup DOMAIN tags
       /\ \A k \in DOMAIN tags : snapFile'[k] = tags[k]
       /\ snapFile'.timestamp = cli[s].now
       /\ snapFile'.daemon.pid = record.pid
       /\ snapFile'.daemon.pidAlive = (record.pid \in alive)
       /\ snapFile'.daemon.startedAt = record.startedAt
       /\ snapFile'.daemon.stoppedAt = record.stoppedAt
       /\ DOMAIN snapFile'.daemon =
             {"manager", "pid", "pidAlive", "startedAt", "stoppedAt", "backendDir"}
       /\ snapFile'.backendApi =
             [reachable |-> out.ok, statusCode |-> out.statusCode, error |-> out.error]

C17_Step ==
    (snapFile' # snapFile /\ snapFile'.exists)
        => \E s \in DOMAIN cli : cli[s].pc = "snap" /\ C17_Regenerated(s)

C17_SnapshotFullyRegenerated == [][C17_Step]_vars

C17_Witness ==
    /\ AtRest /\ last.cmd = "status"
    /\ last.pre.snap.exists /\ "forced" \in DOMAIN last.pre.snap
    /\ last.pre.snap.backendApi.reachable
    /\ "forced" \notin DOMAIN snapFile
    /\ ~snapFile.backendApi.reachable
    /\ snapFile.timestamp = last.now

\* C18: when a start (launched or already running), a stop (no pid, stale
\* pid, stopped, failed) or a status has returned, the snapshot on disk is
\* the one that command wrote: its time and its event tag.
LifecycleEvents ==
    [start |-> {"start", "start_skipped_already_running"},
     stop |-> {"stop_no_metadata", "stop_clean_stale_pid", "stop", "stop_failed"},
     status |-> {"status"}]

\* start gives up before any snapshot when no interpreter is found.
RanToCompletion == ~(last.cmd = "start" /\ last.exit = 1)

C18_LifecycleRefreshesSnapshot ==
    (AtRest /\ last.cmd \in {"start", "stop", "status"} /\ RanToCompletion)
        => /\ snapFile.exists
           /\ snapFile.timestamp = last.now
           /\ snapFile.event = last.extra.event
           /\ snapFile.event \in LifecycleEvents[last.cmd]
           /\ snapFile # last.pre.snap
           /\ (last.cmd = "start" => (snapFile.event = "start" <=> last.launched # Null))

C18_Witness ==
    /\ AtRest /\ last.cmd = "stop" /\ last.extra.event = "stop_failed"
    /\ last.pre.snap.exists /\ last.pre.snap.event = "start_skipped_already_running"
    /\ snapFile.event = "stop_failed"
    /\ snapFile.timestamp = last.now

\* C19: probeHttp answers ok = true and the status for every response
\* with a status in 200..499, and ok = false with an error text for a
\* failed connection and for a timeout; the command that probed returns.
ProbeMade == AtRest /\ last.probe.in.kind # "none"

C19_ProbeOkBelow500 ==
    ProbeMade
        => /\ (last.probe.in.kind = "response"
                 /\ last.probe.in.statusCode \in 200..499)
                 => /\ last.probe.out.ok
                    /\ last.probe.out.statusCode = last.probe.in.statusCode
           /\ (last.probe.in.kind \in {"error", "timeout"})
                 => /\ ~last.probe.out.ok
                    /\ last.probe.out.error \in {"ECONNREFUSED", "timeout"}
                    /\ last.probe.out.statusCode = Null
                    /\ last.exit = 0

C19_Witness ==
    /\ ProbeMade
    /\ last.probe.in.kind = "response" /\ last.probe.in.statusCode = 499
    /\ last.probe.out.ok
    /\ snapFile.backendApi.statusCode = 499

\* C20: whenever a response with a status was received, 5xx included, the
\* probe says ok and the snapshot says reachable; only a failed connection
\* or a timeout is unreachable.
C20_AnyResponseIsReachable ==
    ProbeMade
        => /\ (last.probe.in.kind = "response")
                 => last.probe.out.ok /\ snapFile.backendApi.reachable
           /\ ~snapFile.backendApi.reachable
                 => last.probe.in.kind \in {"error", "timeout"}

\* C23: uninstall --yes stops the daemon first, then unloads the unit and
\* only then removes its file, and removes ~/.genxbot last: the directory
\* never goes while a unit file or a loaded unit is left, and when the
\* command has returned the record, the snapshot, the env file, the logs
\* and the registration are gone.
Uninstalling == {s \in DOMAIN cli : cli[s].pc # "idle" /\ cli[s].cmd = "uninstall"}

C23_Step ==
    /\ (appHome /\ ~appHome') => (~svc.file /\ ~svc.loaded)
    /\ (svc.file /\ ~svc'.file) => ~svc.loaded
    /\ \A s \in Uninstalling :
          (svc' # svc) => (cli[s].ret \in {"true", "false"} /\ cli[s].probe # NoProbe)

C23_Done ==
    (AtRest /\ last.cmd = "uninstall" /\ last.yes)
        => /\ ~appHome /\ ~logDir /\ ~logFiles
           /\ envFile = NoFile /\ metaFile = NoFile /\ snapFile = NoFile
           /\ svc = NoService
           /\ last.exit = 0

Reading == {s \in DOMAIN cli : cli[s].pc # "idle" /\ cli[s].cmd \in {"start", "stop", "status"}}

C24_ReadNeverFails ==
    /\ \A s \in Reading :
          ~Parses(cli[s].pre.meta)
             => /\ cli[s].meta.manager = "cli"
                /\ cli[s].meta.pid = Null
                /\ cli[s].meta.startedAt = Null
                /\ cli[s].meta.stoppedAt = Null
                /\ cli[s].meta.outLog = OutLogPath
                /\ cli[s].meta.errLog = ErrLogPath
                /\ cli[s].sigs = <<>>
                /\ cli[s].cmd = "stop" => cli[s].extra.event = "stop_no_metadata"
                /\ cli[s].cmd = "status" => ~cli[s].running
                /\ cli[s].cmd = "start" => cli[s].pc \in {"spawn", "start_sleep", "snap"}
    /\ (AtRest /\ last.ret # "crashed" /\ ~Parses(last.pre.meta))
          => /\ last.cmd = "stop"
                => last.exit = 0 /\ last.extra.event = "stop_no_metadata" /\ last.sigs = <<>>
             /\ last.cmd = "status"
                => last.exit = 0 /\ ~last.status.running /\ last.status.pid = Null
             /\ (last.cmd = "start" /\ ResolveDaemonPythonCommand # "null")
                => last.exit = 0 /\ last.launched # Null

C24_Witness ==
    /\ AtRest /\ last.cmd = "stop" /\ IsTorn(last.pre.meta)
    /\ last.pre.alive # {}
    /\ last.extra.event = "stop_no_metadata" /\ last.exit = 0

\* C25: a start that finds no live recorded process, on a host with an
\* interpreter, launches one detached process and no more, and leaves the
\* record manager = cli, pid = the new process, startedAt = now,
\* stoppedAt = null, whatever pid the record held before.
C25_Launch ==
    \A p \in alive' \ alive :
       /\ alive' \ alive = {p}
       /\ \E s \in DOMAIN cli :
             /\ cli[s].cmd = "start" /\ cli[s].launched = Null
             /\ cli'[s].launched = p

C25_Started ==
    (AtRest /\ last.cmd = "start" /\ ~WasAlive /\ ResolveDaemonPythonCommand # "null")
        => /\ last.launched # Null
           /\ last.launched \notin last.pre.alive
           /\ last.launched # RecordedPid
           /\ alive \ last.pre.alive \subseteq {last.launched}
           /\ metaFile.exists
           /\ metaFile.manager = "cli"
           /\ metaFile.pid = last.launched
           /\ metaFile.startedAt = last.now
           /\ metaFile.stoppedAt = Null

C25_StartLaunchesOne == []C25_Started /\ [][C25_Launch]_vars

C25_Witness ==
    /\ AtRest /\ last.cmd = "start" /\ WasZombie
    /\ last.pre.meta.stoppedAt = Null
    /\ last.launched \in alive
    /\ metaFile.pid = last.launched

\* C26: the probe that follows a launch only informs: when it finds the
\* backend unreachable the start has sent no signal, the record still
\* names the process it launched, and the exit code is 0.
C26_ProbeInformational ==
    (AtRest /\ last.cmd = "start" /\ last.launched # Null /\ ~last.probe.out.ok)
        => /\ last.sigs = <<>>
           /\ metaFile.exists /\ metaFile.pid = last.launched
           /\ last.exit = 0

C26_Witness ==
    /\ AtRest /\ last.cmd = "start" /\ last.launched # Null
    /\ last.probe # NoProbe /\ ~last.probe.out.ok
    /\ snapFile.exists /\ ~snapFile.backendApi.reachable
    /\ last.launched \in alive
    /\ last.exit = 0

\* C27: on a host without an interpreter, a start that finds no live
\* recorded process exits non-zero, launches nothing, and leaves the record
\* and the snapshot as they were.
C27_NoInterpreter ==
    (AtRest /\ last.cmd = "start" /\ ~WasAlive /\ ~host.python3 /\ ~host.python)
        => /\ last.exit # 0
           /\ last.launched = Null
           /\ alive \subseteq last.pre.alive
           /\ metaFile = last.pre.meta
           /\ snapFile = last.pre.snap

C27_Witness ==
    /\ AtRest /\ last.cmd = "start" /\ ~host.python3 /\ ~host.python
    /\ last.pre.snap.exists
    /\ last.exit = 1 /\ last.launched = Null
    /\ snapFile = last.pre.snap

\* C29: status tests the recorded pid itself, sends no signal, launches
\* nothing and leaves the record file as it was; on disk it changes the
\* snapshot only; its report names a pid exactly when it says running.
C29_StatusFrame ==
    (AtRest /\ last.cmd = "status")
        => /\ last.status.running = WasAlive
           /\ last.sigs = <<>>
           /\ last.launched = Null
           /\ alive \subseteq last.pre.alive
           /\ metaFile = last.pre.meta
           /\ envFile = last.pre.env
           /\ logDir = last.pre.logDir
           /\ logFiles = last.pre.logFiles
           /\ svc = last.pre.svc
           /\ snapFile.exists /\ snapFile.event = "status" /\ snapFile.timestamp = last.now
           /\ (last.status.pid # Null) = last.status.running
           /\ last.exit = 0

C29_Witness ==
    /\ AtRest /\ last.cmd = "status" /\ WasZombie
    /\ ~last.status.running /\ last.status.pid = Null
    /\ metaFile.pid = RecordedPid

\* C30: a snapshot on disk that names a pid says that the process is alive.
C30_SnapshotPidImpliesAlive ==
    snapFile.exists => (snapFile.daemon.pid # Null => snapFile.daemon.pidAlive)

\* C21: whatever the endpoint does, a probe that is out is resolved, once
\* and with a value: a request that got no answer resolves to
\* { ok: false, error: "timeout" }, and no command stays in its probe.
C21_Resolved ==
    \A s \in Slots :
       (cli[s].pc \in Probing /\ cli'[s].pc \notin Probing)
          => /\ ProbeJustMade(s).in = cli[s].probe.in
             /\ ProbeJustMade(s).out = ProbeHttp(cli[s].probe.in)
             /\ cli[s].probe.in.kind \notin {"response", "error"}
                   => ProbeJustMade(s).out = [ok |-> FALSE, statusCode |-> Null,
                                              error |-> "timeout"]

C21_ProbeTotal ==
    /\ [][C21_Resolved]_vars
    /\ \A s \in Slots : (cli[s].pc \in Probing) ~> (cli[s].pc \notin Probing)

\* C22: stop exits 0 when nothing was recorded, when a stale pid was
\* cleaned and when the process was terminated, and non-zero only when the
\* process is still there; status exits 0; a start that ran to its end
\* exits 0; an unknown command exits non-zero and leaves the disk alone.
C22_ExitCodes ==
    AtRest =>
       /\ last.cmd = "stop"
             => /\ last.extra.event \in {"stop_no_metadata", "stop_clean_stale_pid", "stop"}
                      => last.exit = 0
                /\ last.exit # 0 => RecordedPid \in alive
       /\ last.cmd = "status" => last.exit = 0
       /\ (last.cmd = "start" /\ last.probe # NoProbe) => last.exit = 0
       /\ last.cmd = "unknown" => (last.exit # 0 /\ DiskNow = DiskBefore)

\* C28: every command but `logs --follow` returns by itself; stop tests the
\* process at most 15 times and sends SIGKILL at most once; a followed log
\* ends only when it is interrupted.
C28_Bounded ==
    \A s \in Slots :
       /\ cli[s].i < PollLimit
       /\ Cardinality({k \in 1..Len(cli[s].sigs) : cli[s].sigs[k].sig = "SIGKILL"}) <= 1

C28_FollowEnds ==
    \A s \in Slots :
       (cli[s].pc = "following" /\ cli'[s].pc # "following") => last'.ret = "interrupted"

C28_CommandsTerminate ==
    /\ []C28_Bounded
    /\ [][C28_FollowEnds]_vars
    /\ \A s \in Slots : (cli[s].pc \notin {"idle", "following"}) ~> (cli[s].pc = "idle")

\* C31: whatever the checks find, the report of doctor holds the whole
\* battery in its fixed order (the env_validation lines, if any, between
\* admin_token and port_8000), and the exit code is decided on all of it:
\* a FAIL never hides a later check.
BatteryHead ==
    <<"node", "npm", "python", "pip", "uvicorn", "python_fastapi", "backend_dir",
      "frontend_dir", "backend_requirements", "frontend_node_modules", "app_home",
      "log_dir", "env_file", "openai_token", "admin_token">>

BatteryTail == <<"port_8000", "port_5173", "backend_api">>

NamesOf(checks) == [i \in 1..Len(checks) |-> checks[i].name]

C31_DoctorRunsAllChecks ==
    (AtRest /\ last.cmd = "doctor")
        => LET names == NamesOf(last.checks)
               n == Len(names)
               h == Len(BatteryHead)
               t == Len(BatteryTail)
           IN /\ n >= h + t
              /\ SubSeq(names, 1, h) = BatteryHead
              /\ SubSeq(names, n - t + 1, n) = BatteryTail
              /\ \A i \in (h + 1)..(n - t) : names[i] = "env_validation"
              /\ last.summary.PASS + last.summary.WARN + last.summary.FAIL = n
              /\ (last.exit # 0) = (\E i \in 1..n : last.checks[i].level = "FAIL")

C31_Witness ==
    /\ AtRest /\ last.cmd = "doctor"
    /\ last.checks[1].level = "FAIL"
    /\ \E i \in 1..Len(last.checks) :
          last.checks[i].name = "env_validation" /\ last.checks[i].level = "FAIL"
    /\ last.checks[Len(last.checks)].name = "backend_api"
    /\ last.summary.FAIL >= 2

\* C32: doctor reports an occupied default port, an unreachable backend
\* API, a missing API credential and a missing admin token as WARN, never
\* as FAIL; a run whose only findings are of these kinds exits 0.
WarnOnlyChecks == {"port_8000", "port_5173", "backend_api", "openai_token", "admin_token"}

\* The checks of the last report that did not pass.
Findings == {i \in 1..Len(last.checks) : last.checks[i].level # "PASS"}

C32_WarnNeverFail ==
    (AtRest /\ last.cmd = "doctor")
        => /\ \A i \in 1..Len(last.checks) :
                 last.checks[i].name \in WarnOnlyChecks
                    => last.checks[i].level \in {"PASS", "WARN"}
           /\ \A name \in WarnOnlyChecks : LevelsOf(last.checks, name) # {}
           /\ (\A i \in Findings :
                  \/ last.checks[i].name \in WarnOnlyChecks
                  \/ last.checks[i].name = "env_validation" /\ last.checks[i].level = "WARN")
                 => last.exit = 0

C32_Witness ==
    /\ AtRest /\ last.cmd = "doctor"
    /\ Findings # {}
    /\ \A i \in Findings : last.checks[i].name \in WarnOnlyChecks \cup {"env_validation"}
    /\ LevelsOf(last.checks, "port_8000") = {"WARN"}
    /\ LevelsOf(last.checks, "backend_api") = {"WARN"}
    /\ LevelsOf(last.checks, "openai_token") = {"WARN"}
    /\ LevelsOf(last.checks, "admin_token") = {"WARN"}
    /\ last.exit = 0

\* C33: a stop that writes the record changes pid, stoppedAt and updatedAt
\* and nothing else: manager, startedAt, the working directory, the launch
\* command and the log paths are those of the record it read, so a manager
\* set by install outlives status and stop; every write of the record
\* carries an updatedAt later than the one it replaces.
CarriedOver == {"manager", "startedAt", "backendDir", "pythonCommand", "args",
                "outLog", "errLog", "uninstallAt"}

C33_Stop ==
    (AtRest /\ last.cmd \in {"stop", "status"} /\ last.pre.meta.exists)
        => /\ metaFile.exists
           /\ \A f \in CarriedOver : metaFile[f] = last.pre.meta[f]
           /\ last.cmd = "status" => metaFile = last.pre.meta
           /\ metaFile # last.pre.meta
                 => /\ last.extra.event \in {"stop_clean_stale_pid", "stop"}
                    /\ metaFile.pid = Null
                    /\ metaFile.stoppedAt = last.now
                    /\ metaFile.updatedAt = last.now

C33_Write ==
    (metaFile' # metaFile /\ metaFile'.exists)
        => /\ metaFile'.updatedAt = clock'
           /\ metaFile.exists => metaFile'.updatedAt > metaFile.updatedAt

C33_PartialUpdate == []C33_Stop /\ [][C33_Write]_vars

C33_Witness ==
    /\ AtRest /\ last.cmd = "stop" /\ prev.cmd = "onboard"
    /\ last.pre.meta.exists
    /\ last.pre.meta.manager \in {"launchd", "systemd"}
    /\ last.pre.meta.pid # Null
    /\ last.pre.meta.startedAt # Null
    /\ metaFile.manager = last.pre.meta.manager
    /\ metaFile.pid = Null /\ metaFile.stoppedAt = last.now

\* C34: the snapshot decides nothing.  From two states that differ in the
\* snapshot file only, the commands can take the same steps: each step
\* leads to the same position with the same signals sent, the same process
\* launched, the same exit code and the same record on disk.
PositionsOf == {"idle", "spawn", "start_sleep", "sigterm", "poll", "poll_sleep",
                "escalate", "sigkill", "stop_finish", "snap", "cleanup", "rm_unit",
                "rm_home"}

\* What the invocation in slot s, or the one that has just returned, did.
Outcome(s) ==
    IF cli[s].pc = "idle"
    THEN [sigs |-> last.sigs, launched |-> last.launched, exit |-> last.exit]
    ELSE [sigs |-> cli[s].sigs, launched |-> cli[s].launched, exit |-> cli[s].exit]

\* The signals of a list, with their targets, in the order sent.
SentTo(sigs) == [i \in 1..Len(sigs) |-> <<sigs[i].sig, sigs[i].pid>>]

SignalsSent ==
    {<<>>}
    \cup {<< <<"SIGTERM", p>> >> : p \in 1..nextPid}
    \cup {<< <<"SIGTERM", p>>, <<"SIGKILL", p>> >> : p \in 1..nextPid}

RecordsWritten ==
    {metaFile, NoFile}
    \cup {DaemonMetaRecord(StoppedMeta(ReadDaemonMeta, clock), clock)}
    \cup {DaemonMetaRecord(StoppedMeta(ReadDaemonMeta, clock + 1), clock + 1)}
    \cup {DaemonMetaRecord(StartedMeta(ReadDaemonMeta, nextPid, py, clock), clock) :
             py \in {"python3", "python"}}

StepTo(s, what, v) ==
    /\ CommandStep(s)
    /\ CASE what = "pc" -> cli'[s].pc = v
         [] what = "sigs" -> SentTo(Outcome(s)'.sigs) = v
         [] what = "launched" -> Outcome(s)'.launched = v
         [] what = "exit" -> Outcome(s)'.exit = v
         [] what = "record" -> metaFile' = v
         [] what = "other" ->
               \/ cli'[s].pc \notin PositionsOf
               \/ SentTo(Outcome(s)'.sigs) \notin SignalsSent
               \/ Outcome(s)'.launched \notin 0..nextPid
               \/ Outcome(s)'.exit \notin {0, 1}
               \/ metaFile' \notin RecordsWritten

Observations ==
    {<<"pc", v>> : v \in PositionsOf}
    \cup {<<"sigs", v>> : v \in SignalsSent}
    \cup {<<"launched", v>> : v \in 0..nextPid}
    \cup {<<"exit", v>> : v \in {0, 1}}
    \cup {<<"record", v>> : v \in RecordsWritten}
    \cup {<<"other", 0>>}

\* Doctor(s) puts in Finish the checks of the machine's facts and of the
\* API's answer, and the exit code of their summary; it changes nothing
\* else.  Would they be the same after the step?
SameDoctor ==
    \A before \in {LoadEnvValues}, after \in {LoadEnvValues'} :
    \A facts \in ProbeFacts, o \in HttpOutcomes :
    \A checks \in {DoctorChecks(before, facts, o)} :
    \A checks2 \in {DoctorChecks(after, facts, o)'} :
       /\ checks = checks2
       /\ DoctorExitCode(DoctorSummary(checks)) = DoctorExitCode(DoctorSummary(checks2))'

C34_Step ==
    SnapshotTampered
       => /\ \A s \in Slots, ob \in Observations :
                (ENABLED StepTo(s, ob[1], ob[2])) = (ENABLED StepTo(s, ob[1], ob[2]))'
          /\ \A s \in Slots :
                /\ CanBegin(s) = CanBegin(s)'
                /\ CanBegin(s) => SameDoctor

C34_SnapshotDecidesNothing == [][C34_Step]_vars

C34_Witness ==
    /\ AtRest /\ last.cmd = "start"
    /\ last.pre.snap = ForgedSnapshot(1, TRUE)
    /\ PidOf(last.pre.meta) = 1 /\ 1 \notin last.pre.alive
    /\ last.launched # Null /\ last.exit = 0

\* C35: two starts that overlap, both begun with no recorded process
\* alive, launch one daemon between them, and the record names it.
C35_ConcurrentStartsLaunchOnce ==
    (/\ AllAtRest
     /\ last.cmd = "start" /\ prev.cmd = "start"
     /\ Overlapped
     /\ ~WasAlive)
        => /\ ~(last.launched # Null /\ prev.launched # Null)
           /\ \A p \in {last.launched, prev.launched} \ {Null} : PidOf(metaFile) = p

\* C36: stop and uninstall signal only a process that a start of this
\* supervisor launched: when the recorded daemon is gone and its pid
\* belongs to an unrelated process, no SIGTERM or SIGKILL goes to that
\* process, and start does not take it for the daemon.
Unrelated(p) == p \in host.others /\ p \in alive

C36_Step ==
    \A s \in Slots :
       /\ \A k \in (Len(cli[s].sigs) + 1)..Len(cli'[s].sigs) :
             ~Unrelated(cli'[s].sigs[k].pid)
       /\ (cli[s].pc = "idle" /\ cli'[s].pc # "idle" /\ cli'[s].cmd = "start"
             /\ cli'[s].extra.event = "start_skipped_already_running")
             => ~Unrelated(cli'[s].meta.pid)

C36_SignalsOnlyOwnDaemon == [][C36_Step]_vars

\* C37: in every state that sequential commands reach, a persisted record
\* with a pid has a startedAt and no stoppedAt; and once a stop has
\* returned success, the persisted pid is null.
C37_RecordInvariant ==
    /\ (metaFile.exists /\ metaFile.pid # Null)
          => (metaFile.startedAt # Null /\ metaFile.stoppedAt = Null)
    /\ (AtRest /\ last.cmd = "stop" /\ last.ret = "true")
          => PidOf(metaFile) = Null

\* A start after a stop: the record has a pid again, and lost its stoppedAt.
C37_Witness ==
    /\ AtRest
    /\ last.cmd = "start"
    /\ prev.cmd = "stop" /\ prev.ret = "true"
    /\ metaFile.exists /\ metaFile.pid # Null
    /\ metaFile.startedAt # Null /\ metaFile.stoppedAt = Null

\* C38: when uninstall --yes has completed and ~/.genxbot is deleted, no
\* process that the supervisor launched is alive; in particular the daemon
\* whose record was deleted after the embedded stop reported a failure.
C38_UninstallLeavesNoDaemon ==
    (AtRest /\ last.cmd = "uninstall" /\ last.yes /\ last.exit = 0)
       => /\ ~appHome /\ ~metaFile.exists
          /\ alive = {}
          /\ last.ret = "false" => RecordedPid \notin alive

\* The embedded stop failed on a daemon that was running, and the directory
\* was deleted all the same.
C38_Witness ==
    /\ AtRest
    /\ last.cmd = "uninstall" /\ last.yes /\ last.exit = 0
    /\ WasAlive
    /\ last.ret = "false"
    /\ last.extra.event = "stop_failed"
    /\ ~appHome

\* C39: a stop that returns false leaves the record as it was: the pid is
\* still recorded and no stoppedAt is set, so the next status or stop reads
\* the same pid; on disk only the snapshot changed, and it is tagged
\* stop_failed.
C39_FailedStopKeepsRecord ==
    /\ (AtRest /\ last.cmd = "stop" /\ last.ret = "false")
          => /\ metaFile = last.pre.meta
             /\ PidOf(metaFile) = RecordedPid /\ RecordedPid # Null
             /\ metaFile.stoppedAt = Null
             /\ snapFile.exists /\ snapFile.event = "stop_failed"
             /\ snapFile.daemon.pid = RecordedPid
             /\ DiskNow = [DiskBefore EXCEPT !.snap = snapFile]
    /\ (AtRest /\ prev.cmd = "stop" /\ prev.ret = "false"
          /\ last.cmd \in {"status", "stop"})
          => /\ RecordedPid # Null
             /\ last.cmd = "status" => snapFile.daemon.pid = RecordedPid
             /\ last.cmd = "stop" => last.extra.event = "stop_clean_stale_pid"

\* A stop has failed on a daemon that was running, then a status looked.
C39_Witness ==
    /\ AtRest
    /\ prev.cmd = "stop" /\ prev.ret = "false" /\ prev.event = "stop_failed"
    /\ last.cmd = "status"
    /\ RecordedPid # Null
    /\ metaFile.pid = RecordedPid

\* C40: when the recorded process is there at stop's first look and gone
\* when SIGTERM is sent, stop ends as a success: no SIGKILL, the record
\* has pid null and a stoppedAt, the snapshot is tagged stop with
\* forced = false, and stop returns true.
TermFailed ==
    /\ last.cmd = "stop"
    /\ Len(last.sigs) >= 1
    /\ last.sigs[1].sig = "SIGTERM" /\ ~last.sigs[1].delivered

C40_ExitBeforeTermIsSuccess ==
    (AtRest /\ TermFailed)
       => /\ WasAlive
          /\ Len(last.sigs) = 1
          /\ last.ret = "true" /\ last.exit = 0
          /\ metaFile.exists /\ metaFile.pid = Null
          /\ metaFile.stoppedAt = last.now
          /\ snapFile.exists /\ snapFile.event = "stop" /\ ~snapFile.forced

C40_Witness ==
    /\ AtRest
    /\ TermFailed
    /\ WasAlive
    /\ last.ret = "true"
    /\ metaFile.pid = Null

====
